---- MODULE Spec2Model ----
(***************************************************************************)
(* A model of the Boltz-2 prediction pipeline of boltz2-app:               *)
(*   prediction.py     _build_command, _find_predictions_dir,              *)
(*                     _collect_metrics, _extract_error, run_prediction    *)
(*   app.py            predict_structure                                   *)
(*   visualization.py  find_confidence_files, load_pae, load_plddt         *)
(*                                                                         *)
(* Text is modelled by TLA+ strings (Python str), lists by sequences,      *)
(* dicts by functions on the set of keys present.  Characters outside      *)
(* ASCII in the program's literals are written in ASCII here: the em dash  *)
(* as "--", the box-drawing bar of progress bars as "=".                   *)
(***************************************************************************)
EXTENDS Integers, Sequences, FiniteSets, TLC

VARIABLES
    (* _build_command, called on its own *)
    c_pc, c_seq_len, c_sampling_steps, c_cmd,
    (* _collect_metrics, one loop iteration per step *)
    m_pc, m_json_files, m_disk, m_i, m_metrics,
    (* run_prediction *)
    pc, seq_len, sampling_steps, cmd, raw_log, proc, fs, log_file,
    located, collected, ret,
    (* predict_structure *)
    a_pc, a_in, a_loc, a_out,
    (* load_plddt and load_pae, called on their own *)
    l_pc, l_snap, l_args, l_plddt, l_pae,
    (* the locating of the output in run_prediction, on its own *)
    f_pc, f_snap, f_pred_dir, f_ret,
    (* _extract_error, called on its own *)
    e_pc, e_output, e_msg,
    (* a function of visualization.py called on its own *)
    v_pc, v_call, v_ret

cvars == <<c_pc, c_seq_len, c_sampling_steps, c_cmd>>
mvars == <<m_pc, m_json_files, m_disk, m_i, m_metrics>>
rvars == <<pc, seq_len, sampling_steps, cmd, raw_log, proc, fs, log_file,
           located, collected, ret>>
avars == <<a_pc, a_in, a_loc, a_out>>
lvars == <<l_pc, l_snap, l_args, l_plddt, l_pae>>
fvars == <<f_pc, f_snap, f_pred_dir, f_ret>>
evars == <<e_pc, e_output, e_msg>>
vvars == <<v_pc, v_call, v_ret>>
vars == <<cvars, mvars, rvars, avars, lvars, fvars, evars, vvars>>

\* what run_prediction leaves alone
r_others == <<cvars, mvars, avars, lvars, fvars, evars, vvars>>
\* what _build_command leaves alone
c_others == <<mvars, rvars, avars, lvars, fvars, evars, vvars>>
\* what _collect_metrics leaves alone
m_others == <<cvars, rvars, avars, lvars, fvars, evars, vvars>>
\* what predict_structure leaves alone, outside its call of run_prediction
a_others == <<cvars, mvars, lvars, fvars, evars, vvars>>
\* what the loaders leave alone
l_others == <<cvars, mvars, rvars, avars, fvars, evars, vvars>>
\* what the locating of the output leaves alone
f_others == <<cvars, mvars, rvars, avars, lvars, evars, vvars>>
\* what _extract_error leaves alone
e_others == <<cvars, mvars, rvars, avars, lvars, fvars, vvars>>
\* what a function of visualization.py called on its own leaves alone
v_others == <<cvars, mvars, rvars, avars, lvars, fvars, evars>>

-----------------------------------------------------------------------------
(* Python values *)

\* Python's None
None == "<None>"

\* {} : the dict with no key
EmptyDict == [k \in {} |-> 0]

\* str(n) for an int
str(n) == ToString(n)

\* p in s, for two strings
Contains(s, p) ==
    \E i \in 1..(Len(s) - Len(p) + 1) : SubSeq(s, i, i + Len(p) - 1) = p

\* s.startswith(p)
StartsWith(s, p) == Len(s) >= Len(p) /\ SubSeq(s, 1, Len(p)) = p

\* s.endswith(p)
EndsWith(s, p) ==
    Len(s) >= Len(p) /\ SubSeq(s, Len(s) - Len(p) + 1, Len(s)) = p

RECURSIVE SplitFrom(_, _, _, _)
SplitFrom(s, sep, i, start) ==
    IF i > Len(s) THEN <<SubSeq(s, start, Len(s))>>
    ELSE IF SubSeq(s, i, i) = sep
         THEN <<SubSeq(s, start, i - 1)>> \o SplitFrom(s, sep, i + 1, i + 1)
         ELSE SplitFrom(s, sep, i + 1, start)

\* s.split(sep) for a separator of one character
Split(s, sep) == SplitFrom(s, sep, 1, 1)

RECURSIVE Join(_, _)
\* sep.join(parts)
Join(sep, parts) ==
    IF parts = <<>> THEN ""
    ELSE IF Len(parts) = 1 THEN parts[1]
    ELSE parts[1] \o sep \o Join(sep, Tail(parts))

\* s.strip() == ""
IsBlank(s) == \A i \in 1..Len(s) : SubSeq(s, i, i) \in {" ", "\t", "\r", "\n"}

\* xs[-n:]
LastN(xs, n) == IF Len(xs) <= n THEN xs ELSE SubSeq(xs, Len(xs) - n + 1, Len(xs))

\* os.path.join(a, b) for a relative b
PathJoin(a, b) == IF EndsWith(a, "/") THEN a \o b ELSE a \o "/" \o b

-----------------------------------------------------------------------------
(* _build_command *)

\* the sequence length above which one recycling step is requested
RecyclingOneAbove == 1000
\* the sequence length above which two recycling steps are requested
RecyclingTwoAbove == 500

BaseCommand(yaml_path, output_dir, steps) ==
    << "boltz", "predict", yaml_path,
       "--out_dir", output_dir,
       "--sampling_steps", str(steps),
       "--accelerator", "gpu",
       "--override",
       "--use_msa_server" >>

\* a plausible slip: the boundaries taken with >= instead of >
BuildCommandInclusive(yaml_path, output_dir, steps, len) ==
    BaseCommand(yaml_path, output_dir, steps) \o
        ( IF len >= RecyclingOneAbove
            THEN << "--recycling_steps", "1", "--diffusion_samples", "1" >>
          ELSE IF len >= RecyclingTwoAbove
            THEN << "--recycling_steps", "2", "--diffusion_samples", "1" >>
          ELSE << >> )

_build_command(yaml_path, output_dir, steps, len) ==
    BaseCommand(yaml_path, output_dir, steps) \o
        ( IF len > RecyclingOneAbove
            THEN << "--recycling_steps", "1", "--diffusion_samples", "1" >>
          ELSE IF len > RecyclingTwoAbove
            THEN << "--recycling_steps", "2", "--diffusion_samples", "1" >>
          ELSE << >> )

-----------------------------------------------------------------------------
(* The working directory after the external process has run.                *)
(*   entries : what glob enumerates directly under the working directory,   *)
(*             in the order it enumerates them; each entry has a name, a    *)
(*             modification time and whether it holds a predictions folder  *)
(*   direct  : whether <working directory>/predictions is a directory       *)
(*   listing : the files below a predictions folder, relative to it, in the *)
(*             order a recursive glob enumerates them                       *)
(*   json    : what json.load gives for a file of the listing: an object    *)
(*             (kind "object", its members in fields), another JSON value   *)
(*             (kind "array") or a parse error (kind "malformed")           *)
(*   data    : what a structure file or a binary array file of the listing  *)
(*             holds, for the loaders of visualization.py: the rows of the  *)
(*             atom table of a structure file (residue identifier rid and   *)
(*             B-factor b), the arrays of a binary array file by name       *)
(* A JSON object read by the loaders also names, in lists, the members      *)
(* whose value is a JSON array of numbers and, in texts, the members whose  *)
(* value is a string; the other members are numbers.                        *)
(* A number with a fraction is kept in hundredths: 87 stands for 0.87 and   *)
(* 100 for 1.0.                                                             *)

output_dir == "/tmp/boltz_j1"
yaml_path == PathJoin(output_dir, "input.yaml")
log_path == PathJoin(output_dir, "boltz_log.txt")

EmptySnapshot ==
    [entries |-> << >>, direct |-> FALSE, listing |-> << >>, json |-> EmptyDict,
     data |-> EmptyDict]

\* glob.glob(os.path.join(dir, "boltz_results_*")): the matching entries, in
\* enumeration order
GlobResults(snap) ==
    SelectSeq(snap.entries, LAMBDA e : StartsWith(e.name, "boltz_results_"))

RECURSIVE InsertDesc(_, _)
\* e put into a list sorted by modification time, newest first, after every
\* element that is not older than it
InsertDesc(sorted, e) ==
    IF sorted = << >> THEN <<e>>
    ELSE IF Head(sorted).mtime >= e.mtime
         THEN <<Head(sorted)>> \o InsertDesc(Tail(sorted), e)
         ELSE <<e>> \o sorted

RECURSIVE SortedByMtimeDesc(_)
\* sorted(dirs, key=os.path.getmtime, reverse=True): a stable sort, so
\* entries of equal modification time keep their enumeration order
SortedByMtimeDesc(dirs) ==
    IF dirs = << >> THEN << >>
    ELSE InsertDesc(SortedByMtimeDesc(SubSeq(dirs, 1, Len(dirs) - 1)),
                    dirs[Len(dirs)])

_find_predictions_dir(dir, snap) ==
    LET dirs == SortedByMtimeDesc(GlobResults(snap))
        direct == PathJoin(dir, "predictions")
    IN  IF dirs # << >> /\ dirs[1].pred
          THEN PathJoin(PathJoin(dir, dirs[1].name), "predictions")
        ELSE IF snap.direct THEN direct ELSE None

\* glob.glob(os.path.join(pred_dir, "**", "*" + ext), recursive=True)
GlobExt(pred_dir, snap, ext) ==
    LET hits == SelectSeq(snap.listing, LAMBDA rel : EndsWith(rel, ext))
    IN  [i \in 1..Len(hits) |-> PathJoin(pred_dir, hits[i])]

\* the files json.load can be asked for, by full path
Disk(pred_dir, snap) ==
    LET paths == { PathJoin(pred_dir, rel) : rel \in DOMAIN snap.json }
    IN  [p \in paths |->
            snap.json[CHOOSE rel \in DOMAIN snap.json : PathJoin(pred_dir, rel) = p]]

-----------------------------------------------------------------------------
(* _collect_metrics *)

\* metric_keys, in the order the dict literal lists them
metric_keys ==
    << <<"confidence", "confidence">>,
       <<"plddt", "plddt">>,
       <<"ptm", "ptm">>,
       <<"affinity_pred_value", "affinity">>,
       <<"affinity", "affinity">>,
       <<"affinity_probability_binary", "binding_probability">> >>

SourceKeys == { metric_keys[i][1] : i \in DOMAIN metric_keys }
CanonicalKeys == { metric_keys[i][2] : i \in DOMAIN metric_keys }

\* metrics[k] = v
DictSet(d, k, v) == [x \in DOMAIN d \cup {k} |-> IF x = k THEN v ELSE d[x]]

RECURSIVE CollectKeysOverwriting(_, _, _)
\* a plausible slip: the test `dst_key not in metrics` left out
CollectKeysOverwriting(metrics, data, i) ==
    IF i > Len(metric_keys) THEN metrics
    ELSE LET src_key == metric_keys[i][1]
             dst_key == metric_keys[i][2]
         IN  IF src_key \in DOMAIN data
               THEN CollectKeysOverwriting(DictSet(metrics, dst_key, data[src_key]),
                                           data, i + 1)
               ELSE CollectKeysOverwriting(metrics, data, i + 1)

RECURSIVE CollectKeys(_, _, _)
\* the inner loop over metric_keys.items(), from its i-th item on
CollectKeys(metrics, data, i) ==
    IF i > Len(metric_keys) THEN metrics
    ELSE LET src_key == metric_keys[i][1]
             dst_key == metric_keys[i][2]
         IN  IF src_key \in DOMAIN data /\ dst_key \notin DOMAIN metrics
               THEN CollectKeys(DictSet(metrics, dst_key, data[src_key]), data, i + 1)
               ELSE CollectKeys(metrics, data, i + 1)

\* a plausible slip: a document that cannot be read ends the collection with
\* nothing
CollectDocStrict(metrics, path, disk) ==
    IF path \notin DOMAIN disk THEN EmptyDict
    ELSE IF disk[path].kind # "object" THEN EmptyDict
    ELSE CollectKeys(metrics, disk[path].fields, 1)

\* one iteration of the loop over json_files: open and json.load raise for a
\* missing or malformed file, `src_key in data` or `data[src_key]` raise for
\* a JSON value that is not an object; each leaves metrics as it was
CollectDoc(metrics, path, disk) ==
    IF path \notin DOMAIN disk THEN metrics
    ELSE IF disk[path].kind # "object" THEN metrics
    ELSE CollectKeys(metrics, disk[path].fields, 1)

RECURSIVE CollectFrom(_, _, _, _)
CollectFrom(metrics, json_files, disk, i) ==
    IF i > Len(json_files) THEN metrics
    ELSE CollectFrom(CollectDoc(metrics, json_files[i], disk), json_files, disk, i + 1)

_collect_metrics(json_files, disk) == CollectFrom(EmptyDict, json_files, disk, 1)

-----------------------------------------------------------------------------
(* _extract_error *)

\* how many lines of a traceback are kept
TracebackTail == 20
\* how many error lines are kept
ErrorTail == 5
\* how many lines of plain output are kept
CleanTail == 15

Quotes == {"'", "\""}

\* the longest run of characters that are not quotes, from position i on
RECURSIVE KeyRun(_, _)
KeyRun(s, i) ==
    IF i > Len(s) \/ SubSeq(s, i, i) \in Quotes THEN ""
    ELSE SubSeq(s, i, i) \o KeyRun(s, i + 1)

\* re.search(r"KeyError: ['\"]?([^'\"]+)['\"]?", output): group 1 of the
\* leftmost match, or None.  After "KeyError: " an optional quote is passed
\* over when a character that is no quote follows it.
KeyErrorGroup(output) ==
    LET lead == "KeyError: "
        KeyAt(i) ==
            LET j == i + Len(lead)
                quoted == j <= Len(output) /\ SubSeq(output, j, j) \in Quotes
                start == IF quoted THEN j + 1 ELSE j
            IN  KeyRun(output, start)
        hits == { i \in 1..Len(output) :
                    /\ i + Len(lead) - 1 <= Len(output)
                    /\ SubSeq(output, i, i + Len(lead) - 1) = lead
                    /\ KeyAt(i) # "" }
    IN  IF hits = {} THEN None
        ELSE KeyAt(CHOOSE i \in hits : \A k \in hits : i <= k)

\* the lines that count as progress-bar noise
IsNoise(l) ==
    \E x \in {"%|", "it/s", "=", "warnings.warn"} : Contains(l, x)

\* a plausible slip: the stack trace looked for before the key-lookup failure
ExtractErrorTracebackFirst(output, len, log) ==
    IF Contains(output, "CUDA out of memory") \/ Contains(output, "OutOfMemoryError")
      THEN "GPU out of memory. Sequence (" \o str(len) \o " aa) is too long for "
           \o "this GPU. Try shorter or use a bigger GPU."
    ELSE IF Contains(output, "No such file or directory")
      THEN "Input file error -- check your sequence format."
    ELSE
      LET lines == Split(output, "\n")
          tb == { i \in 1..Len(lines) : Contains(lines[i], "Traceback") }
          errs == SelectSeq(lines, LAMBDA l :
                      Contains(l, "Error:") \/ Contains(l, "Exception:"))
          clean == SelectSeq(lines, LAMBDA l : ~IsBlank(l) /\ ~IsNoise(l))
      IN  IF tb # {}
            THEN LET tb_start == CHOOSE i \in tb : \A k \in tb : i <= k
                     tail == LastN(SelectSeq(SubSeq(lines, tb_start, Len(lines)),
                                             LAMBDA l : ~IsBlank(l)),
                                   TracebackTail)
                 IN  "Prediction failed:\n" \o Join("\n", tail)
          ELSE IF Contains(output, "KeyError")
            THEN LET m == KeyErrorGroup(output)
                     key == IF m # None THEN m ELSE "unknown"
                 IN  "YAML parsing error: KeyError '" \o key
                     \o "' -- chain ID format may be wrong."
          ELSE IF errs # << >>
            THEN Join("\n", LastN(errs, ErrorTail))
          ELSE IF clean # << >>
            THEN Join("\n", LastN(clean, CleanTail))
          ELSE "Unknown error -- see " \o log

\* a plausible slip: the filtered tail returned without the fallback
ExtractErrorNoFallback(output, len, log) ==
    IF Contains(output, "CUDA out of memory") \/ Contains(output, "OutOfMemoryError")
      THEN "GPU out of memory. Sequence (" \o str(len) \o " aa) is too long for "
           \o "this GPU. Try shorter or use a bigger GPU."
    ELSE IF Contains(output, "No such file or directory")
      THEN "Input file error -- check your sequence format."
    ELSE IF Contains(output, "KeyError")
      THEN LET m == KeyErrorGroup(output)
               key == IF m # None THEN m ELSE "unknown"
           IN  "YAML parsing error: KeyError '" \o key
               \o "' -- chain ID format may be wrong."
    ELSE
      LET lines == Split(output, "\n")
          tb == { i \in 1..Len(lines) : Contains(lines[i], "Traceback") }
          errs == SelectSeq(lines, LAMBDA l :
                      Contains(l, "Error:") \/ Contains(l, "Exception:"))
          clean == SelectSeq(lines, LAMBDA l : ~IsBlank(l) /\ ~IsNoise(l))
      IN  IF tb # {}
            THEN LET tb_start == CHOOSE i \in tb : \A k \in tb : i <= k
                     tail == LastN(SelectSeq(SubSeq(lines, tb_start, Len(lines)),
                                             LAMBDA l : ~IsBlank(l)),
                                   TracebackTail)
                 IN  "Prediction failed:\n" \o Join("\n", tail)
          ELSE IF errs # << >>
            THEN Join("\n", LastN(errs, ErrorTail))
          ELSE Join("\n", LastN(clean, CleanTail))

_extract_error(output, len, log) ==
    IF Contains(output, "CUDA out of memory") \/ Contains(output, "OutOfMemoryError")
      THEN "GPU out of memory. Sequence (" \o str(len) \o " aa) is too long for "
           \o "this GPU. Try shorter or use a bigger GPU."
    ELSE IF Contains(output, "No such file or directory")
      THEN "Input file error -- check your sequence format."
    ELSE IF Contains(output, "KeyError")
      THEN LET m == KeyErrorGroup(output)
               key == IF m # None THEN m ELSE "unknown"
           IN  "YAML parsing error: KeyError '" \o key
               \o "' -- chain ID format may be wrong."
    ELSE
      LET lines == Split(output, "\n")
          tb == { i \in 1..Len(lines) : Contains(lines[i], "Traceback") }
          errs == SelectSeq(lines, LAMBDA l :
                      Contains(l, "Error:") \/ Contains(l, "Exception:"))
          clean == SelectSeq(lines, LAMBDA l : ~IsBlank(l) /\ ~IsNoise(l))
      IN  IF tb # {}
            THEN LET tb_start == CHOOSE i \in tb : \A k \in tb : i <= k
                     tail == LastN(SelectSeq(SubSeq(lines, tb_start, Len(lines)),
                                             LAMBDA l : ~IsBlank(l)),
                                   TracebackTail)
                 IN  "Prediction failed:\n" \o Join("\n", tail)
          ELSE IF errs # << >>
            THEN Join("\n", LastN(errs, ErrorTail))
          ELSE IF clean # << >>
            THEN Join("\n", LastN(clean, CleanTail))
          ELSE "Unknown error -- see " \o log

-----------------------------------------------------------------------------
(* run_prediction *)

\* the longest listing of a predictions folder
MaxFiles == 2

\* the sequence lengths and sampling-step counts run_prediction is called with
SeqLens == {300, 1200}
SamplingSteps == {50}

\* what the process may have written to stdout and to stderr
RunOutputs ==
    { "",
      "RuntimeError: CUDA out of memory.\n",
      "Predicting\n 50%|== | 1/2 [00:01, 1.0it/s]\n" }

ReturnCodes == {0, 1}

\* the files a predictions folder may hold
RunFileNames == {"m/m_0.cif", "m/m_0.pdb", "m/confidence_m_0.json", "m/broken.json"}

RunJson ==
    [rel \in {"m/confidence_m_0.json", "m/broken.json"} |->
        IF rel = "m/broken.json"
          THEN [kind |-> "malformed"]
          ELSE [kind |-> "object",
                fields |-> [k \in {"confidence", "ptm"} |->
                               IF k = "confidence" THEN 1 ELSE 2]]]

\* the sequences over S without repetition, of length at most n
RECURSIVE ListsUpTo(_, _)
ListsUpTo(S, n) ==
    IF n = 0 THEN { << >> }
    ELSE LET shorter == ListsUpTo(S, n - 1)
         IN  shorter \cup
             UNION { { Append(l, x) : x \in S \ { l[i] : i \in DOMAIN l } } :
                     l \in { k \in shorter : Len(k) = n - 1 } }

\* what the working directory may hold besides the predictions folders
RunLayouts ==
    { [entries |-> << >>, direct |-> FALSE],
      [entries |-> << >>, direct |-> TRUE],
      [entries |-> << [name |-> "msa_cache", mtime |-> 1, pred |-> FALSE] >>,
       direct |-> FALSE],
      [entries |-> << [name |-> "boltz_results_input", mtime |-> 1, pred |-> TRUE] >>,
       direct |-> FALSE],
      [entries |-> << [name |-> "boltz_results_input", mtime |-> 1, pred |-> FALSE] >>,
       direct |-> TRUE],
      [entries |-> << [name |-> "boltz_results_old", mtime |-> 1, pred |-> TRUE],
                      [name |-> "boltz_results_input", mtime |-> 2, pred |-> TRUE] >>,
       direct |-> FALSE] }

RunSnapshots ==
    { [entries |-> lay.entries, direct |-> lay.direct, listing |-> l,
       json |-> [rel \in { l[i] : i \in DOMAIN l } \cap DOMAIN RunJson |-> RunJson[rel]],
       data |-> EmptyDict] :
        lay \in RunLayouts, l \in ListsUpTo(RunFileNames, MaxFiles) }

\* run_prediction has not returned
NoResult == [pending |-> TRUE]

\* (success, structure_path_or_error, metrics, raw_log)
Result(success, result, metrics, raw) ==
    [success |-> success, result |-> result, metrics |-> metrics, raw_log |-> raw]

\* a plausible slip: no handler for TimeoutExpired, so that the last handler
\* takes it
TimeoutResultUnhandled(raw) ==
    Result(FALSE, "Error running Boltz-2: Command 'boltz' timed out after 1800 seconds",
           EmptyDict, raw)

\* except subprocess.TimeoutExpired
TimeoutResult(raw) ==
    Result(FALSE, "Prediction timed out (>30 min).", EmptyDict, raw)

\* a plausible slip: no handler for FileNotFoundError, so that the last
\* handler takes it
NotFoundResultUnhandled ==
    Result(FALSE, "Error running Boltz-2: [Errno 2] No such file or directory: 'boltz'",
           EmptyDict, "")

\* except FileNotFoundError
NotFoundResult ==
    Result(FALSE, "Boltz-2 not found. Ensure 'boltz' is installed and on PATH.",
           EmptyDict, "")

\* except Exception as exc
ErrorResult(exc, raw) ==
    Result(FALSE, "Error running Boltz-2: " \o exc, EmptyDict, raw)

\* raw_log once the process has returned
FullLog(raw, p) ==
    raw \o "Return code: " \o str(p.returncode) \o "\n\n"
        \o "=== STDOUT ===\n" \o (IF p.stdout # "" THEN p.stdout ELSE "(empty)")
        \o "\n\n"
        \o "=== STDERR ===\n" \o (IF p.stderr # "" THEN p.stderr ELSE "(empty)")

\* a plausible slip: .pdb files looked at before .cif files
StructurePdbFirst(snap) ==
    LET pred_dir == _find_predictions_dir(output_dir, snap)
        cif == IF pred_dir # None THEN GlobExt(pred_dir, snap, ".cif") ELSE << >>
        pdb == IF pred_dir # None THEN GlobExt(pred_dir, snap, ".pdb") ELSE << >>
    IN  IF pdb # << >> THEN pdb[1] ELSE IF cif # << >> THEN cif[1] ELSE None

\* (cif or pdb or [None])[0]
Structure(snap) ==
    LET pred_dir == _find_predictions_dir(output_dir, snap)
        cif == IF pred_dir # None THEN GlobExt(pred_dir, snap, ".cif") ELSE << >>
        pdb == IF pred_dir # None THEN GlobExt(pred_dir, snap, ".pdb") ELSE << >>
    IN  IF cif # << >> THEN cif[1] ELSE IF pdb # << >> THEN pdb[1] ELSE None

\* a plausible slip: the test `if structure` left out
LocateResultUnchecked(snap, p, len, raw) ==
    LET pred_dir == _find_predictions_dir(output_dir, snap)
        json_files == IF pred_dir # None THEN GlobExt(pred_dir, snap, ".json")
                      ELSE << >>
    IN  Result(TRUE, Structure(snap),
               IF pred_dir # None
                 THEN _collect_metrics(json_files, Disk(pred_dir, snap))
                 ELSE EmptyDict,
               raw)

\* a plausible slip: stdout taken before stderr
LocateResultStdoutFirst(snap, p, len, raw) ==
    LET pred_dir == _find_predictions_dir(output_dir, snap)
        json_files == IF pred_dir # None THEN GlobExt(pred_dir, snap, ".json")
                      ELSE << >>
        structure == Structure(snap)
        error_text == IF p.stdout # "" THEN p.stdout ELSE p.stderr
    IN  IF structure # None
          THEN Result(TRUE, structure,
                      _collect_metrics(json_files, Disk(pred_dir, snap)), raw)
          ELSE Result(FALSE, _extract_error(error_text, len, log_path), EmptyDict, raw)

\* the locating of the output and the return that follows it
LocateResult(snap, p, len, raw) ==
    LET pred_dir == _find_predictions_dir(output_dir, snap)
        json_files == IF pred_dir # None THEN GlobExt(pred_dir, snap, ".json")
                      ELSE << >>
        structure == Structure(snap)
        error_text == IF p.stderr # "" THEN p.stderr ELSE p.stdout
    IN  IF structure # None
          THEN Result(TRUE, structure,
                      _collect_metrics(json_files, Disk(pred_dir, snap)), raw)
          ELSE Result(FALSE, _extract_error(error_text, len, log_path), EmptyDict, raw)

\* an array: its shape and its values in row-major order.  A value is a
\* number of hundredths, so that 87 stands for 0.87 and 8700 for 87.0
Array(shape, flat) == [shape |-> shape, flat |-> flat]

\* None, where an array may stand
NoneArray == [none |-> TRUE]

\* a row of the atom table: seq tells whether its label_seq_id field is an
\* integer (rid), num whether its B-factor field is a number (b)
Atom(rid, b) == [seq |-> TRUE, num |-> TRUE, rid |-> rid, b |-> b]

\* a row without a residue number: "." stands in the field, as on the atoms
\* of a ligand, and int() raises ValueError
HetAtom(b) == [seq |-> FALSE, num |-> TRUE, rid |-> 0, b |-> b]

\* a row without a B-factor: "?" stands in the field and float() raises
\* ValueError
NoBFactor(rid) == [seq |-> TRUE, num |-> FALSE, rid |-> rid, b |-> 0]

\* what predict_structure holds before it is called
NoInput == [none |-> TRUE]
NoLocals == [none |-> TRUE]
NoYield == [none |-> TRUE]

\* what the process may have written when predict_structure runs it
AppOutputs == { "", "Predicting\n" }

\* a confidence artifact is absent, present and well-formed, or present and
\* malformed
ArtifactStates == {"absent", "present", "malformed"}

AppLayouts ==
    { [entries |-> << [name |-> "boltz_results_input", mtime |-> 1, pred |-> TRUE] >>,
       direct |-> FALSE],
      [entries |-> << >>, direct |-> TRUE] }

CifName == "m/m_0.cif"
PdbName == "m/m_0.pdb"
ConfidenceName == "m/confidence_m_0.json"
PaeName == "m/pae_m_0.npz"
PlddtName == "m/plddt_m_0.npz"

\* the predictions folder with one structure file (or none) and each of the
\* three confidence artifacts in the given state
AppSnapshot(lay, st, pae, pl, js) ==
    LET listing ==
            (IF st = "cif" THEN <<CifName>> ELSE IF st = "pdb" THEN <<PdbName>> ELSE << >>)
            \o (IF js # "absent" THEN <<ConfidenceName>> ELSE << >>)
            \o (IF pae # "absent" THEN <<PaeName>> ELSE << >>)
            \o (IF pl # "absent" THEN <<PlddtName>> ELSE << >>)
        names == { listing[i] : i \in DOMAIN listing }
    IN  [entries |-> lay.entries,
         direct |-> lay.direct,
         listing |-> listing,
         json |-> [rel \in names \cap {ConfidenceName} |->
                     IF js = "malformed" THEN [kind |-> "malformed"]
                     ELSE [kind |-> "object",
                           fields |-> [k \in {"confidence", "ptm"} |->
                                          IF k = "confidence" THEN 87 ELSE 80],
                           lists |-> {}, texts |-> {}]],
         data |-> [rel \in names \ {ConfidenceName} |->
                     CASE rel = CifName ->
                            [kind |-> "cif",
                             atoms |-> << Atom(1, 8700),
                                          Atom(2, 9100),
                                          Atom(3, 6500) >>]
                       [] rel = PdbName -> [kind |-> "pdb"]
                       [] rel = PaeName ->
                            IF pae = "malformed" THEN [kind |-> "corrupt"]
                            ELSE [kind |-> "npz", files |-> <<"pae">>,
                                  arrays |-> [k \in {"pae"} |->
                                                 Array(<<2, 2>>, <<0, 250, 300, 0>>)]]
                       [] rel = PlddtName ->
                            IF pl = "malformed" THEN [kind |-> "corrupt"]
                            ELSE [kind |-> "npz", files |-> <<"plddt">>,
                                  arrays |-> [k \in {"plddt"} |->
                                                 Array(<<3>>, <<87, 91, 65>>)]]]]

AppSnapshots ==
    { AppSnapshot(lay, st, pae, pl, js) :
        lay \in AppLayouts, st \in {"cif", "pdb", "none"},
        pae \in ArtifactStates, pl \in ArtifactStates, js \in ArtifactStates }

\* what the process may leave behind and print: run_prediction called on its
\* own, or from predict_structure
Snapshots == IF a_pc = "idle" THEN RunSnapshots ELSE AppSnapshots
Outputs == IF a_pc = "idle" THEN RunOutputs ELSE AppOutputs

RunInit ==
    /\ pc = "start"
    /\ seq_len \in SeqLens
    /\ sampling_steps \in SamplingSteps
    /\ cmd = << >>
    /\ raw_log = ""
    /\ proc = [kind |-> "none"]
    /\ fs = EmptySnapshot
    /\ log_file = None
    /\ located = FALSE
    /\ collected = FALSE
    /\ ret = NoResult

\* the command and the head of the log
Begin ==
    /\ pc = "start"
    /\ cmd' = _build_command(yaml_path, output_dir, sampling_steps, seq_len)
    /\ raw_log' = "Command: " \o Join(" ", cmd') \o "\n\n"
    /\ pc' = "run"
    /\ UNCHANGED r_others
    /\ UNCHANGED <<seq_len, sampling_steps, proc, fs, log_file, located, collected, ret>>

\* subprocess.run returns: the process has exited within the timeout
ProcessExits ==
    /\ pc = "run"
    /\ \E rc \in ReturnCodes, out \in Outputs, err \in Outputs :
          proc' = [kind |-> "exited", returncode |-> rc, stdout |-> out, stderr |-> err]
    /\ fs' \in Snapshots
    /\ pc' = "log"
    /\ UNCHANGED r_others
    /\ UNCHANGED <<seq_len, sampling_steps, cmd, raw_log, log_file, located, collected, ret>>

\* subprocess.run raises TimeoutExpired: the process was started, ran past
\* the timeout and was killed; what it wrote so far stays on disk
ProcessTimesOut ==
    /\ pc = "run"
    /\ proc' = [kind |-> "timeout"]
    /\ fs' \in Snapshots
    /\ ret' = TimeoutResult(raw_log)
    /\ pc' = "done"
    /\ UNCHANGED r_others
    /\ UNCHANGED <<seq_len, sampling_steps, cmd, raw_log, log_file, located, collected>>

\* subprocess.run raises FileNotFoundError: there is no executable boltz
ExecutableMissing ==
    /\ pc = "run"
    /\ proc' = [kind |-> "notfound"]
    /\ ret' = NotFoundResult
    /\ pc' = "done"
    /\ UNCHANGED r_others
    /\ UNCHANGED <<seq_len, sampling_steps, cmd, raw_log, fs, log_file, located, collected>>

\* subprocess.run raises another exception: the process was not started
InvocationFails ==
    /\ pc = "run"
    /\ proc' = [kind |-> "failed"]
    /\ ret' = ErrorResult("[Errno 13] Permission denied: 'boltz'", raw_log)
    /\ pc' = "done"
    /\ UNCHANGED r_others
    /\ UNCHANGED <<seq_len, sampling_steps, cmd, raw_log, fs, log_file, located, collected>>

\* raw_log is completed and written to the log file
WriteLog ==
    /\ pc = "log"
    /\ raw_log' = FullLog(raw_log, proc)
    /\ log_file' = raw_log'
    /\ pc' = "locate"
    /\ UNCHANGED r_others
    /\ UNCHANGED <<seq_len, sampling_steps, cmd, proc, fs, located, collected, ret>>

\* open(log_path, "w") raises: FileNotFoundError when the working directory
\* is gone, another OSError when the file may not be written
WriteLogFails ==
    /\ pc = "log"
    /\ raw_log' = FullLog(raw_log, proc)
    /\ \/ ret' = NotFoundResult
       \/ ret' = ErrorResult("[Errno 13] Permission denied: '" \o log_path \o "'",
                             raw_log')
    /\ pc' = "done"
    /\ UNCHANGED r_others
    /\ UNCHANGED <<seq_len, sampling_steps, cmd, proc, fs, log_file, located, collected>>

\* the output is located and the result returned
Locate ==
    /\ pc = "locate"
    /\ located' = TRUE
    /\ ret' = LocateResult(fs, proc, seq_len, raw_log)
    /\ collected' = ret'.success
    /\ pc' = "done"
    /\ UNCHANGED r_others
    /\ UNCHANGED <<seq_len, sampling_steps, cmd, raw_log, proc, fs, log_file>>

\* os.path.getmtime raises FileNotFoundError in the sort: a matching entry
\* was removed after glob had listed it
LocateRaces ==
    /\ pc = "locate"
    /\ GlobResults(fs) # << >>
    /\ ret' = NotFoundResult
    /\ pc' = "done"
    /\ UNCHANGED r_others
    /\ UNCHANGED <<seq_len, sampling_steps, cmd, raw_log, proc, fs, log_file, located,
                   collected>>

-----------------------------------------------------------------------------
(* the components that are idle in a specification *)

CmdIdle ==
    c_pc = "idle" /\ c_seq_len = 0 /\ c_sampling_steps = 0 /\ c_cmd = << >>

MetricsIdle ==
    /\ m_pc = "idle" /\ m_json_files = << >> /\ m_disk = EmptyDict
    /\ m_i = 0 /\ m_metrics = EmptyDict

RunIdle ==
    /\ pc = "idle" /\ seq_len = 0 /\ sampling_steps = 0 /\ cmd = << >>
    /\ raw_log = "" /\ proc = [kind |-> "none"] /\ fs = EmptySnapshot
    /\ log_file = None /\ located = FALSE /\ collected = FALSE /\ ret = NoResult

AppIdle ==
    a_pc = "idle" /\ a_in = NoInput /\ a_loc = NoLocals /\ a_out = NoYield

LoadIdle ==
    /\ l_pc = "idle" /\ l_snap = EmptySnapshot /\ l_args = NoInput
    /\ l_plddt = NoneArray /\ l_pae = NoneArray

FindIdle ==
    f_pc = "idle" /\ f_snap = EmptySnapshot /\ f_pred_dir = None /\ f_ret = NoResult

ExtractIdle ==
    e_pc = "idle" /\ e_output = "" /\ e_msg = None

\* the functions checked on their own are not running
VisIdle ==
    v_pc = "idle" /\ v_call = NoInput /\ v_ret = NoneArray

OthersIdle == LoadIdle /\ FindIdle /\ ExtractIdle /\ VisIdle

\* run_prediction, from its call to its return
Init == RunInit /\ CmdIdle /\ MetricsIdle /\ AppIdle /\ OthersIdle
Next ==
    \/ Begin
    \/ ProcessExits
    \/ ProcessTimesOut
    \/ ExecutableMissing
    \/ InvocationFails
    \/ WriteLog
    \/ WriteLogFails
    \/ Locate
    \/ LocateRaces
Spec == Init /\ [][Next]_vars

-----------------------------------------------------------------------------
(* run_prediction: the results it returns *)

\* every structure file of the snapshot, by full path
StructureFiles(snap) ==
    LET folders ==
            { PathJoin(PathJoin(output_dir, snap.entries[i].name), "predictions") :
                i \in { j \in DOMAIN snap.entries : snap.entries[j].pred } }
            \cup (IF snap.direct THEN {PathJoin(output_dir, "predictions")} ELSE {})
        rels == { snap.listing[i] : i \in DOMAIN snap.listing }
    IN  { PathJoin(d, rel) : d \in folders,
                             rel \in { r \in rels : EndsWith(r, ".cif") \/ EndsWith(r, ".pdb") } }

\* the process was started: it exited or it was killed at the timeout
Started == proc.kind \in {"exited", "timeout"}

\* C1: every return of run_prediction is either a Success that carries the
\* path of a structure file, or a Failure that carries a message and an
\* empty metrics map; nothing is returned before, and nothing else.
C1_ExactlyOneVariant ==
    IF pc = "done"
      THEN /\ ret # NoResult
           /\ \/ /\ ret.success = TRUE
                 /\ ret.result \in StructureFiles(fs)
              \/ /\ ret.success = FALSE
                 /\ ret.result # "" /\ ret.result # None
                 /\ ret.result \notin StructureFiles(fs)
                 /\ ret.metrics = EmptyDict
      ELSE ret = NoResult

\* C1: a Success and each kind of Failure have been returned
C1_Witness ==
    /\ pc = "done"
    /\ ret.success = TRUE
    /\ ret.metrics # EmptyDict
    /\ proc.kind = "exited"

\* C2: run_prediction returns Success only when the process exited with code 0
\* and a structure file was discovered; a non-zero exit code is a Failure
\* even with a structure file under the working directory.
C2_SuccessOnlyOnExitZero ==
    (pc = "done" /\ ret.success = TRUE)
        => /\ proc.kind = "exited"
           /\ proc.returncode = 0
           /\ Structure(fs) # None

\* C4: on timeout the result is the Failure "Prediction timed out (>30 min)."
\* with an empty metrics map, and neither the output location nor the metric
\* extraction has run, whatever files are under the working directory.
C4_TimeoutFailure ==
    (pc = "done" /\ proc.kind = "timeout")
        => /\ ret.success = FALSE
           /\ ret.result = "Prediction timed out (>30 min)."
           /\ ret.metrics = EmptyDict
           /\ ~located
           /\ ~collected

\* C4: a timeout with a structure file and a JSON document already on disk
C4_Witness ==
    /\ pc = "done"
    /\ proc.kind = "timeout"
    /\ Structure(fs) # None
    /\ DOMAIN fs.json # {}
    /\ ret.success = FALSE

\* C5: whenever the process was started, the log file holds the command line
\* and the captured output when the result is returned.
C5_LogAlwaysWritten ==
    (pc = "done" /\ Started)
        => /\ log_file # None
           /\ Contains(log_file, Join(" ", cmd))

\* the text handed to the Error Classifier: stderr, or stdout when stderr is
\* empty
ClassifiedText == IF proc.stderr # "" THEN proc.stderr ELSE proc.stdout

\* C6: when the process has exited and the search has found no structure
\* file, the result is a Failure whose message is the Error Classifier's
\* result for stderr, or for stdout when stderr is empty.
C6_ClassifiedFailure ==
    (pc = "done" /\ proc.kind = "exited" /\ located /\ StructureFiles(fs) = {})
        => /\ ret.success = FALSE
           /\ ret.result = _extract_error(ClassifiedText, seq_len, log_path)
           /\ ret.metrics = EmptyDict

\* C6: no structure file, stderr empty and stdout not
C6_Witness ==
    /\ pc = "done"
    /\ proc.kind = "exited"
    /\ located
    /\ StructureFiles(fs) = {}
    /\ proc.stderr = ""
    /\ proc.stdout # ""
    /\ ret.success = FALSE

\* C7: when the executable is missing, run_prediction returns (it does not
\* raise) a Failure that says the tool was not found and must be installed
\* and on PATH.
C7_MissingExecutable ==
    (pc = "done" /\ proc.kind = "notfound")
        => /\ ret # NoResult
           /\ ret.success = FALSE
           /\ Contains(ret.result, "not found")
           /\ Contains(ret.result, "installed and on PATH")
           /\ ret.metrics = EmptyDict

\* C7: the executable was missing and a result was returned
C7_Witness ==
    /\ pc = "done"
    /\ proc.kind = "notfound"
    /\ ret.success = FALSE

-----------------------------------------------------------------------------
(* _build_command, for every sequence length *)

\* MAX_SEQ_LENGTH: the longest sequence validate_protein lets through
MAX_SEQ_LENGTH == 2500

CmdSamplingSteps == {10, 50, 200}

CmdInit ==
    /\ c_pc = "call"
    /\ c_seq_len \in 0..MAX_SEQ_LENGTH
    /\ c_sampling_steps \in CmdSamplingSteps
    /\ c_cmd = << >>

BuildCommand ==
    /\ c_pc = "call"
    /\ c_cmd' = _build_command(yaml_path, output_dir, c_sampling_steps, c_seq_len)
    /\ c_pc' = "returned"
    /\ UNCHANGED <<c_seq_len, c_sampling_steps>>
    /\ UNCHANGED c_others

InitCmd == CmdInit /\ MetricsIdle /\ RunIdle /\ AppIdle /\ OthersIdle
NextCmd == BuildCommand
SpecCmd == InitCmd /\ [][NextCmd]_vars

\* the values that follow the flag in the command
FlagValues(command, flag) ==
    { command[i + 1] : i \in { j \in 1..(Len(command) - 1) : command[j] = flag } }

\* the flag is one of the words of the command
HasFlag(command, flag) == \E i \in DOMAIN command : command[i] = flag

\* C3: the command has recycling_steps=1 and diffusion_samples=1 for a length
\* above 1000, recycling_steps=2 and diffusion_samples=1 for a length above
\* 500 and at most 1000, neither flag for a length of at most 500; the base
\* flags are there for every length.
C3_AdaptiveFlags ==
    c_pc = "returned" =>
        /\ c_seq_len > 1000 =>
              /\ FlagValues(c_cmd, "--recycling_steps") = {"1"}
              /\ FlagValues(c_cmd, "--diffusion_samples") = {"1"}
        /\ (c_seq_len > 500 /\ c_seq_len <= 1000) =>
              /\ FlagValues(c_cmd, "--recycling_steps") = {"2"}
              /\ FlagValues(c_cmd, "--diffusion_samples") = {"1"}
        /\ c_seq_len <= 500 =>
              /\ ~HasFlag(c_cmd, "--recycling_steps")
              /\ ~HasFlag(c_cmd, "--diffusion_samples")
        /\ FlagValues(c_cmd, "--out_dir") = {output_dir}
        /\ FlagValues(c_cmd, "--sampling_steps") = {ToString(c_sampling_steps)}
        /\ FlagValues(c_cmd, "--accelerator") = {"gpu"}
        /\ HasFlag(c_cmd, "--override")
        /\ HasFlag(c_cmd, "--use_msa_server")

\* C3: the command for a length of exactly 1000, the upper end of the middle
\* band
C3_Witness ==
    /\ c_pc = "returned"
    /\ c_seq_len = 1000
    /\ FlagValues(c_cmd, "--recycling_steps") = {"2"}

-----------------------------------------------------------------------------
(* _collect_metrics, one document per step *)

\* the longest list of JSON files
MaxDocs == 3

\* the i-th JSON file
DocPath(i) == "/tmp/boltz_j1/predictions/d" \o ToString(i) \o ".json"

Object(fields) == [kind |-> "object", fields |-> fields]

\* what a JSON file may hold
MetricDocs ==
    { Object([k \in {"confidence"} |-> 1]),
      Object([k \in {"confidence", "ptm"} |-> IF k = "confidence" THEN 2 ELSE 3]),
      Object([k \in {"affinity_pred_value", "affinity"} |->
                 IF k = "affinity_pred_value" THEN 4 ELSE 5]),
      Object([k \in {"affinity"} |-> 6]),
      Object([k \in {"affinity_pred_value", "plddt"} |->
                 IF k = "affinity_pred_value" THEN 7 ELSE 8]),
      [kind |-> "array"],
      [kind |-> "malformed"] }

\* the disks on which each of the files d1 .. dn is missing or holds one of
\* MetricDocs
Disks(n) ==
    UNION { [present -> MetricDocs] :
            present \in SUBSET { DocPath(i) : i \in 1..n } }

MetricsInit ==
    /\ m_pc = "loop"
    /\ \E n \in 0..MaxDocs :
          /\ m_json_files = [i \in 1..n |-> DocPath(i)]
          /\ m_disk \in Disks(n)
    /\ m_i = 1
    /\ m_metrics = EmptyDict

\* one iteration of `for path in json_files`
CollectStep ==
    /\ m_pc = "loop"
    /\ m_i <= Len(m_json_files)
    /\ m_metrics' = CollectDoc(m_metrics, m_json_files[m_i], m_disk)
    /\ m_i' = m_i + 1
    /\ UNCHANGED <<m_pc, m_json_files, m_disk>>
    /\ UNCHANGED m_others

\* return metrics
CollectReturn ==
    /\ m_pc = "loop"
    /\ m_i > Len(m_json_files)
    /\ m_pc' = "returned"
    /\ UNCHANGED <<m_json_files, m_disk, m_i, m_metrics>>
    /\ UNCHANGED m_others

InitMetrics == MetricsInit /\ CmdIdle /\ RunIdle /\ AppIdle /\ OthersIdle
NextMetrics == CollectStep \/ CollectReturn
SpecMetrics == InitMetrics /\ [][NextMetrics]_vars

\* the document the i-th file gives is a JSON object
Readable(i) ==
    /\ m_json_files[i] \in DOMAIN m_disk
    /\ m_disk[m_json_files[i]].kind = "object"

\* the members of the i-th document
Fields(i) == m_disk[m_json_files[i]].fields

\* the source keys of a canonical key
SourcesOf(k) == { metric_keys[j][1] : j \in { x \in DOMAIN metric_keys : metric_keys[x][2] = k } }

\* the documents, among the first n, with a source key of k
Holders(k, n) ==
    { i \in 1..n : Readable(i) /\ SourcesOf(k) \cap DOMAIN Fields(i) # {} }

\* C9: each canonical key of the map holds a value that the first document in
\* input order with one of its source keys gives for it, and is absent when
\* no document has one; this holds after each document, so that a later
\* document never overwrites a key.
C9_FirstWriteWins ==
    m_pc \in {"loop", "returned"} =>
        \A k \in CanonicalKeys :
            LET holders == Holders(k, m_i - 1)
            IN  IF holders = {}
                  THEN k \notin DOMAIN m_metrics
                  ELSE LET first == CHOOSE i \in holders : \A j \in holders : i <= j
                       IN  /\ k \in DOMAIN m_metrics
                           /\ m_metrics[k] \in
                                { Fields(first)[s] :
                                    s \in SourcesOf(k) \cap DOMAIN Fields(first) }

\* C9: two documents in the list give different values for confidence, and
\* the map returned has the first one's
C9_Witness ==
    /\ m_pc = "returned"
    /\ Cardinality(Holders("confidence", Len(m_json_files))) >= 2
    /\ \E i, j \in Holders("confidence", Len(m_json_files)) :
          i < j /\ Fields(i)["confidence"] # Fields(j)["confidence"]
                /\ m_metrics["confidence"] = Fields(i)["confidence"]

\* C10: the map returned for a list with missing or malformed documents is
\* the map returned for the list without them.
C10_BadDocsSkipped ==
    m_pc = "returned" =>
        LET good == { i \in DOMAIN m_json_files : Readable(i) }
            kept == SelectSeq(m_json_files,
                              LAMBDA f : f \in DOMAIN m_disk /\ m_disk[f].kind = "object")
        IN  /\ m_metrics = _collect_metrics(kept, m_disk)
            /\ (good = {} => m_metrics = EmptyDict)

\* C10: a malformed document and a missing one after a document that has
\* populated a key
C10_Witness ==
    /\ m_pc = "returned"
    /\ \E i, j, k \in DOMAIN m_json_files :
          /\ i < j /\ i < k
          /\ Readable(i) /\ DOMAIN Fields(i) # {}
          /\ m_json_files[j] \in DOMAIN m_disk /\ m_disk[m_json_files[j]].kind = "malformed"
          /\ m_json_files[k] \notin DOMAIN m_disk
    /\ m_metrics # EmptyDict

-----------------------------------------------------------------------------
(* visualization.py: the discovery and the loading of confidence data *)

\* the place of the last "/" of a path, 0 when it has none
LastSlash(p) ==
    LET at == { i \in 1..Len(p) : SubSeq(p, i, i) = "/" }
    IN  IF at = {} THEN 0 ELSE CHOOSE i \in at : \A j \in at : j <= i

\* os.path.dirname, for a path without doubled slashes
dirname(p) ==
    LET i == LastSlash(p)
    IN  IF i = 0 THEN "" ELSE IF i = 1 THEN "/" ELSE SubSeq(p, 1, i - 1)

\* os.path.basename
basename(p) == SubSeq(p, LastSlash(p) + 1, Len(p))

UpperCase == "ABCDEFGHIJKLMNOPQRSTUVWXYZ"
LowerCase == "abcdefghijklmnopqrstuvwxyz"

RECURSIVE Lower(_)
\* str.lower, for ASCII text
Lower(t) ==
    IF t = "" THEN ""
    ELSE LET c == SubSeq(t, 1, 1)
             at == { i \in 1..Len(UpperCase) : SubSeq(UpperCase, i, i) = c }
         IN  (IF at = {} THEN c
              ELSE LET i == CHOOSE i \in at : TRUE IN SubSeq(LowerCase, i, i))
             \o Lower(SubSeq(t, 2, Len(t)))

\* the predictions folders of the snapshot
Folders(snap) ==
    LET with == SelectSeq(snap.entries, LAMBDA e : e.pred)
    IN  [i \in 1..Len(with) |->
            PathJoin(PathJoin(output_dir, with[i].name), "predictions")]
        \o (IF snap.direct THEN << PathJoin(output_dir, "predictions") >> ELSE << >>)

RECURSIVE TreeFrom(_, _, _)
TreeFrom(snap, folders, i) ==
    IF i > Len(folders) THEN << >>
    ELSE [k \in 1..Len(snap.listing) |-> PathJoin(folders[i], snap.listing[k])]
         \o TreeFrom(snap, folders, i + 1)

\* the files of the snapshot by full path, in the order a recursive glob
\* enumerates them
Tree(snap) == TreeFrom(snap, Folders(snap), 1)

\* what a file of the snapshot holds
FileContent(snap, path) ==
    LET fset == { Folders(snap)[i] : i \in DOMAIN Folders(snap) }
        rels == DOMAIN snap.json \cup DOMAIN snap.data
        hits == { rel \in rels : \E f \in fset : PathJoin(f, rel) = path }
    IN  IF hits = {} THEN [kind |-> "missing"]
        ELSE LET rel == CHOOSE rel \in hits : TRUE
             IN  IF rel \in DOMAIN snap.json THEN snap.json[rel] ELSE snap.data[rel]

\* os.path.exists
Exists(snap, path) == \E i \in DOMAIN Tree(snap) : Tree(snap)[i] = path

\* the directories searched: base_dir, its parent and the parent of that
ConfidenceDirs(base_dir) ==
    LET p1 == dirname(base_dir)
        d1 == IF p1 # "" THEN <<base_dir, p1>> ELSE <<base_dir>>
        p2 == dirname(d1[Len(d1)])
    IN  IF p2 # "" THEN Append(d1, p2) ELSE d1

\* glob.glob(os.path.join(d, "**", "*.npz"), recursive=True)
GlobNpz(d, tree) ==
    SelectSeq(tree, LAMBDA f : StartsWith(f, PathJoin(d, "")) /\ EndsWith(basename(f), ".npz"))

\* glob.glob(os.path.join(d, "**", "confidence*.json"), recursive=True)
GlobConfidenceJson(d, tree) ==
    SelectSeq(tree, LAMBDA f :
        /\ StartsWith(f, PathJoin(d, ""))
        /\ Len(basename(f)) >= Len("confidence") + Len(".json")
        /\ StartsWith(basename(f), "confidence")
        /\ EndsWith(basename(f), ".json"))

RECURSIVE ScanNpz(_, _, _)
\* the loop over the .npz files of one directory
ScanNpz(result, files, i) ==
    IF i > Len(files) THEN result
    ELSE LET name == Lower(basename(files[i]))
             next == IF Contains(name, "pae") /\ result.pae = None
                       THEN [result EXCEPT !.pae = files[i]]
                     ELSE IF Contains(name, "plddt") /\ result.plddt = None
                       THEN [result EXCEPT !.plddt = files[i]]
                     ELSE result
         IN  ScanNpz(next, files, i + 1)

\* the loop over the confidence*.json files of one directory
ScanJson(result, files) ==
    IF files # << >> /\ result.confidence_json = None
      THEN [result EXCEPT !.confidence_json = files[1]]
      ELSE result

RECURSIVE ScanDirs(_, _, _, _)
ScanDirs(result, dirs, tree, i) ==
    IF i > Len(dirs) THEN result
    ELSE ScanDirs(ScanJson(ScanNpz(result, GlobNpz(dirs[i], tree), 1),
                           GlobConfidenceJson(dirs[i], tree)),
                  dirs, tree, i + 1)

find_confidence_files(base_dir, tree) ==
    ScanDirs([pae |-> None, plddt |-> None, confidence_json |-> None],
             ConfidenceDirs(base_dir), tree, 1)

\* an exception left the function
Raised == [raised |-> TRUE]

ndim(arr) == Len(arr.shape)

RECURSIVE Sum(_)
Sum(xs) == IF xs = << >> THEN 0 ELSE Head(xs) + Sum(Tail(xs))

\* arr.max(), for an array that is not empty
Max(xs) == CHOOSE x \in { xs[i] : i \in DOMAIN xs } : \A i \in DOMAIN xs : xs[i] <= x

\* arr[0], for an array of three dimensions
FirstBlock(arr) ==
    Array(Tail(arr.shape), SubSeq(arr.flat, 1, arr.shape[2] * arr.shape[3]))

\* arr.mean(axis=-1) when the last axis is the shorter one, arr.mean(axis=0)
\* otherwise; a mean is exact on the arrays drawn here
MeanSmallerAxis(arr) ==
    LET r == arr.shape[1]
        c == arr.shape[2]
        at(i, j) == arr.flat[(i - 1) * c + j]
    IN  IF c < r
          THEN Array(<<r>>, [i \in 1..r |-> Sum([j \in 1..c |-> at(i, j)]) \div c])
          ELSE Array(<<c>>, [j \in 1..c |-> Sum([i \in 1..r |-> at(i, j)]) \div r])

\* a plausible slip: the array scaled whatever its largest value
SqueezeArrayAlwaysScales(arr) ==
    LET a3 == IF ndim(arr) = 3 /\ arr.shape[1] > 0 THEN FirstBlock(arr) ELSE arr
        a2 == IF ndim(a3) = 2 THEN MeanSmallerAxis(a3) ELSE a3
        flat == a2.flat
    IN  IF ndim(arr) = 3 /\ arr.shape[1] = 0 THEN Raised
        ELSE IF flat = << >> THEN Raised
        ELSE Array(<<Len(flat)>>, [i \in DOMAIN flat |-> flat[i] * 100])

_squeeze_array(arr) ==
    LET a3 == IF ndim(arr) = 3 /\ arr.shape[1] > 0 THEN FirstBlock(arr) ELSE arr
        a2 == IF ndim(a3) = 2 THEN MeanSmallerAxis(a3) ELSE a3
        flat == a2.flat
    IN  IF ndim(arr) = 3 /\ arr.shape[1] = 0 THEN Raised
        ELSE IF flat = << >> THEN Raised
        ELSE IF Max(flat) <= 100
          THEN Array(<<Len(flat)>>, [i \in DOMAIN flat |-> flat[i] * 100])
          ELSE Array(<<Len(flat)>>, flat)

\* a plausible slip: no try block around the loading of the array file
LoadNpzUncaught(path, keys, snap) ==
    LET data == FileContent(snap, path)
        named == { i \in DOMAIN keys : \E j \in DOMAIN data.files : data.files[j] = keys[i] }
        arr == IF named # {}
                 THEN _squeeze_array(data.arrays[keys[CHOOSE i \in named :
                                                        \A j \in named : i <= j]])
               ELSE IF data.files = << >> THEN Raised
               ELSE _squeeze_array(data.arrays[data.files[1]])
    IN  IF path = None \/ data.kind # "npz" THEN Raised
        ELSE arr

_load_npz(path, keys, snap) ==
    LET data == FileContent(snap, path)
        named == { i \in DOMAIN keys : \E j \in DOMAIN data.files : data.files[j] = keys[i] }
        arr == IF named # {}
                 THEN _squeeze_array(data.arrays[keys[CHOOSE i \in named :
                                                        \A j \in named : i <= j]])
               ELSE IF data.files = << >> THEN Raised
               ELSE _squeeze_array(data.arrays[data.files[1]])
    IN  IF path = None \/ data.kind # "npz" THEN NoneArray
        ELSE IF arr = Raised THEN NoneArray
        ELSE arr

\* the parameters of load_pae
load_pae_params == {"npz_path"}

load_pae(npz_path, snap) ==
    _load_npz(npz_path, <<"pae", "predicted_aligned_error", "data">>, snap)

RECURSIVE ByResidueLastWins(_, _, _)
\* a plausible slip: the test `rid not in by_residue` left out
ByResidueLastWins(by_residue, atoms, i) ==
    IF i > Len(atoms) THEN by_residue
    ELSE ByResidueLastWins(IF atoms[i].seq /\ atoms[i].num
                             THEN DictSet(by_residue, atoms[i].rid, atoms[i].b)
                             ELSE by_residue,
                           atoms, i + 1)

RECURSIVE ByResidue(_, _, _)
\* the loop over the rows of the atom table: by_residue keeps the B-factor
\* of the first row of each residue identifier; a row whose residue number
\* is no integer is passed over, and so is a row of a residue not yet kept
\* whose B-factor is no number, which leaves the residue to a later row
ByResidue(by_residue, atoms, i) ==
    IF i > Len(atoms) THEN by_residue
    ELSE ByResidue(IF /\ atoms[i].seq
                      /\ atoms[i].rid \notin DOMAIN by_residue
                      /\ atoms[i].num
                     THEN DictSet(by_residue, atoms[i].rid, atoms[i].b)
                     ELSE by_residue,
                   atoms, i + 1)

RECURSIVE SortedKeys(_)
\* sorted(by_residue)
SortedKeys(keys) ==
    IF keys = {} THEN << >>
    ELSE LET least == CHOOSE k \in keys : \A x \in keys : k <= x
         IN  <<least>> \o SortedKeys(keys \ {least})

\* the B-factors of the atom table by residue, in the order of the residue
\* identifiers; None when the table has no row or the file cannot be read
extract_plddt_from_cif(cif_path, snap) ==
    LET data == FileContent(snap, cif_path)
        by_residue == ByResidue(EmptyDict, data.atoms, 1)
        order == SortedKeys(DOMAIN by_residue)
    IN  IF data.kind = "cif" /\ by_residue # EmptyDict
          THEN Array(<<Len(order)>>, [i \in DOMAIN order |-> by_residue[order[i]]])
          ELSE NoneArray

\* np.array(data[k]): an array without dimensions from a number, an array
\* of one dimension from a JSON array of numbers
NpArray(data, k) ==
    IF k \in data.lists
      THEN Array(<<Len(data.fields[k])>>, data.fields[k])
      ELSE Array(<< >>, <<data.fields[k]>>)

\* the body of the try block of the JSON source of load_plddt: the first of
\* the four keys the document has decides.  open and json.load raise for a
\* missing or malformed file, arr.max() raises for an empty array and for
\* an array of text; without any of the keys the loop ends and nothing is
\* returned
JsonScores(data) ==
    LET keys == <<"plddt", "atom_plddt", "confidence", "predicted_lddt">>
        has == { i \in DOMAIN keys : keys[i] \in DOMAIN data.fields }
        k == keys[CHOOSE i \in has : \A j \in has : i <= j]
        arr == NpArray(data, k)
    IN  IF data.kind # "object" THEN Raised
        ELSE IF has = {} THEN NoneArray
        ELSE IF k \in data.texts THEN Raised
        ELSE IF arr.flat = << >> THEN Raised
        ELSE IF Max(arr.flat) <= 100
          THEN Array(arr.shape, [i \in DOMAIN arr.flat |-> arr.flat[i] * 100])
          ELSE arr

\* the JSON source of load_plddt: `except Exception: pass`, and the
\* `return None` that follows
PlddtFromJson(json_path, snap) ==
    LET arr == JsonScores(FileContent(snap, json_path))
    IN  IF arr = Raised THEN NoneArray ELSE arr

\* a plausible slip: the array file tried before the structure file
LoadPlddtNpzFirst(npz_path, json_path, cif_path, snap) ==
    LET from_cif == IF cif_path # None /\ Exists(snap, cif_path)
                      THEN extract_plddt_from_cif(cif_path, snap)
                      ELSE NoneArray
        from_npz == IF npz_path # None /\ Exists(snap, npz_path)
                      THEN _load_npz(npz_path,
                                     <<"plddt", "predicted_lddt", "confidence", "data">>,
                                     snap)
                      ELSE NoneArray
        from_json == IF json_path # None /\ Exists(snap, json_path)
                       THEN PlddtFromJson(json_path, snap)
                       ELSE NoneArray
    IN  IF from_npz # NoneArray THEN from_npz
        ELSE IF from_cif # NoneArray /\ Len(from_cif.flat) > 0 THEN from_cif
        ELSE from_json

load_plddt(npz_path, json_path, cif_path, snap) ==
    LET from_cif == IF cif_path # None /\ Exists(snap, cif_path)
                      THEN extract_plddt_from_cif(cif_path, snap)
                      ELSE NoneArray
        from_npz == IF npz_path # None /\ Exists(snap, npz_path)
                      THEN _load_npz(npz_path,
                                     <<"plddt", "predicted_lddt", "confidence", "data">>,
                                     snap)
                      ELSE NoneArray
        from_json == IF json_path # None /\ Exists(snap, json_path)
                       THEN PlddtFromJson(json_path, snap)
                       ELSE NoneArray
    IN  IF from_cif # NoneArray /\ Len(from_cif.flat) > 0 THEN from_cif
        ELSE IF from_npz # NoneArray THEN from_npz
        ELSE from_json

\* plot_pae: the path of the image, None without matplotlib or when imshow
\* refuses the array
plot_pae(matrix, has_mpl, out_path) ==
    IF has_mpl /\ ndim(matrix) = 2 THEN out_path ELSE None

\* plot_plddt: the path of the image, None without matplotlib or when the
\* scores are no sequence
plot_plddt(scores, has_mpl, out_path) ==
    IF has_mpl /\ ndim(scores) = 1 THEN out_path ELSE None

-----------------------------------------------------------------------------
(* app.py: predict_structure, from the point where its inputs have been     *)
(* validated.  One action for each stretch of the generator between two     *)
(* yields; run_prediction, which it calls, takes its own steps in between.  *)

job_dir == output_dir

\* the lengths of the validated sequence
AppSeqLens == {120}

\* (viewer, status, metrics, file, pae_img, plddt_img, logs), without the
\* texts of the metrics and of the logs
Yield(viewer, status, file, pae_img, plddt_img) ==
    [viewer |-> viewer, status |-> status, file |-> file,
     pae_img |-> pae_img, plddt_img |-> plddt_img]

\* state(status)
state(status) == Yield(None, status, None, None, None)

\* _error(msg)
_error(msg) == Yield(None, "Error: " \o msg, None, None, None)

\* the keyword arguments predict_structure calls load_pae with
PaeCallKeywords == {"npz_path", "json_path"}

\* conf = find_confidence_files(os.path.dirname(result)), and
\* find_confidence_files(job_dir) instead when that has found neither array
\* file; tree is what the file system holds
ConfidenceFiles(result, dir, tree) ==
    LET near == find_confidence_files(dirname(result), tree)
    IN  IF near.pae = None /\ near.plddt = None
          THEN find_confidence_files(dir, tree)
          ELSE near

\* the stretch from the reading of the structure to the plots; exc is the
\* text of the exception that ended it, None when none did
ProcessResults(snap, result, has_mpl) ==
    LET fmt == IF EndsWith(result, ".cif") THEN "cif" ELSE "pdb"
        conf == ConfidenceFiles(result, job_dir, Tree(snap))
        wanted == conf.pae # None \/ conf.confidence_json # None
        bad_call == wanted /\ ~(PaeCallKeywords \subseteq load_pae_params)
        pae_matrix == IF wanted /\ ~bad_call THEN load_pae(conf.pae, snap) ELSE NoneArray
        plddt_scores == load_plddt(conf.plddt, conf.confidence_json,
                                   IF fmt = "cif" THEN result ELSE None, snap)
    IN  IF bad_call
          THEN [read |-> "ok", fmt |-> fmt, conf |-> conf,
                exc |-> "load_pae() got an unexpected keyword argument 'json_path'"]
          ELSE [read |-> "ok", fmt |-> fmt, conf |-> conf, exc |-> None,
                pae_matrix |-> pae_matrix,
                plddt_scores |-> plddt_scores,
                pae_img |-> IF pae_matrix # NoneArray
                              THEN plot_pae(pae_matrix, has_mpl, PathJoin(job_dir, "pae.png"))
                              ELSE None,
                plddt_img |-> IF plddt_scores # NoneArray
                                THEN plot_plddt(plddt_scores, has_mpl,
                                                PathJoin(job_dir, "plddt.png"))
                                ELSE None]

AppInit ==
    /\ a_pc = "setup"
    /\ a_in \in [len : AppSeqLens, steps : SamplingSteps, has_mpl : BOOLEAN]
    /\ a_loc = NoLocals
    /\ a_out = NoYield

\* the job directory and the YAML are made; "Running Boltz-2..." is yielded
AppSetup ==
    /\ a_pc = "setup"
    /\ a_out' = state("Running Boltz-2...")
    /\ a_pc' = "call"
    /\ UNCHANGED <<a_in, a_loc>>
    /\ UNCHANGED <<a_others, rvars>>

\* run_prediction is called
AppCallRun ==
    /\ a_pc = "call"
    /\ pc = "idle"
    /\ pc' = "start"
    /\ seq_len' = a_in.len
    /\ sampling_steps' = a_in.steps
    /\ a_pc' = "in_run"
    /\ UNCHANGED <<cmd, raw_log, proc, fs, log_file, located, collected, ret>>
    /\ UNCHANGED <<a_in, a_loc, a_out>>
    /\ UNCHANGED a_others

\* run_prediction has returned a Failure: it is yielded and the generator ends
AppRunFailed ==
    /\ a_pc = "in_run"
    /\ pc = "done"
    /\ ret.success = FALSE
    /\ a_out' = Yield(None, "Prediction failed: " \o ret.result, None, None, None)
    /\ a_pc' = "returned"
    /\ UNCHANGED <<a_in, a_loc>>
    /\ UNCHANGED <<a_others, rvars>>

\* run_prediction has returned a Success: "Processing results..." is yielded
AppRunSucceeded ==
    /\ a_pc = "in_run"
    /\ pc = "done"
    /\ ret.success = TRUE
    /\ a_out' = state("Processing results...")
    /\ a_pc' = "process"
    /\ UNCHANGED <<a_in, a_loc>>
    /\ UNCHANGED <<a_others, rvars>>

\* the structure is read, the confidence files are found and loaded and the
\* plots made; an exception is yielded as an error and ends the generator
AppProcess ==
    /\ a_pc = "process"
    /\ \E readable \in BOOLEAN :
          a_loc' = IF readable
                     THEN ProcessResults(fs, ret.result, a_in.has_mpl)
                     ELSE [read |-> "failed",
                           exc |-> "'utf-8' codec can't decode byte 0xff"]
    /\ IF a_loc'.exc # None
         THEN a_out' = _error(a_loc'.exc) /\ a_pc' = "returned"
         ELSE a_out' = state("Creating 3D visualisation...") /\ a_pc' = "view"
    /\ UNCHANGED a_in
    /\ UNCHANGED <<a_others, rvars>>

\* the viewer, the texts and the copy of the structure: the last yield
AppFinish ==
    /\ a_pc = "view"
    /\ a_out' = Yield("<iframe " \o a_loc.fmt \o ">", "Prediction completed!",
                      PathJoin(job_dir, "structure." \o a_loc.fmt),
                      a_loc.pae_img, a_loc.plddt_img)
    /\ a_pc' = "returned"
    /\ UNCHANGED <<a_in, a_loc>>
    /\ UNCHANGED <<a_others, rvars>>

InitApp == AppInit /\ RunIdle /\ CmdIdle /\ MetricsIdle /\ OthersIdle
NextApp ==
    \/ AppSetup
    \/ AppCallRun
    \/ Begin
    \/ ProcessExits
    \/ ProcessTimesOut
    \/ ExecutableMissing
    \/ InvocationFails
    \/ WriteLog
    \/ WriteLogFails
    \/ Locate
    \/ LocateRaces
    \/ AppRunFailed
    \/ AppRunSucceeded
    \/ AppProcess
    \/ AppFinish
SpecApp == InitApp /\ [][NextApp]_vars

\* run_prediction has returned a Success and its structure file has been read
StructureRead ==
    /\ pc = "done"
    /\ ret.success = TRUE
    /\ a_pc \in {"view", "returned"}
    /\ a_loc.read = "ok"

\* C8: once run_prediction has returned Success with a readable structure
\* file, the last state predict_structure yields has the viewer and the
\* download file, whatever confidence artifacts were found; a confidence
\* artifact at most leaves its plot absent.
C8_ArtifactsNeverFailJob ==
    (a_pc = "returned" /\ StructureRead)
        => /\ a_out.viewer # None
           /\ a_out.file # None

-----------------------------------------------------------------------------
(* load_pae and load_plddt, called on their own on a predictions folder     *)
(* that holds a structure file, two binary array files and a confidence     *)
(* document, each absent or with one of the contents below.                 *)

Absent == [kind |-> "absent"]

\* a structure file: unreadable, without atom rows, with B-factors on the
\* scale 0-100, with B-factors on the scale 0-1 (its rows out of order and
\* one residue on two rows)
CifContents ==
    { Absent,
      [kind |-> "corrupt"],
      [kind |-> "cif", atoms |-> << >>],
      [kind |-> "cif", atoms |-> << Atom(1, 8700), Atom(2, 9100) >>],
      [kind |-> "cif", atoms |-> << Atom(2, 91), Atom(1, 87),
                                    Atom(1, 50) >>] }

\* a binary array file of one array
Npz(name, arr) == [kind |-> "npz", files |-> <<name>>, arrays |-> [k \in {name} |-> arr]]

\* the per-residue array file: corrupt, an archive without arrays, scores on
\* the scale 0-1, scores on the scale 0-100, scores with a batch axis
PlddtNpzContents ==
    { Absent,
      [kind |-> "corrupt"],
      [kind |-> "npz", files |-> << >>, arrays |-> EmptyDict],
      Npz("plddt", Array(<<2>>, <<85, 93>>)),
      Npz("plddt", Array(<<2>>, <<8500, 9300>>)),
      Npz("data", Array(<<1, 2>>, <<85, 93>>)) }

\* a pairwise-error matrix of two residues, row by row
PaeRows == << <<0, 250>>, <<300, 0>> >>

\* the rows of a matrix one after the other
RECURSIVE Flat(_)
Flat(rows) == IF rows = << >> THEN << >> ELSE Head(rows) \o Flat(Tail(rows))

\* the matrix as an array of two dimensions
PaeMatrix == Array(<<Len(PaeRows), Len(PaeRows[1])>>, Flat(PaeRows))

\* the pairwise array file: corrupt, the matrix, the matrix with a leading
\* batch axis of size 1
PaeNpzContents ==
    { Absent,
      [kind |-> "corrupt"],
      Npz("pae", PaeMatrix),
      Npz("pae", Array(<<1>> \o PaeMatrix.shape, PaeMatrix.flat)) }

\* the confidence document: malformed, per-residue scores on either scale,
\* an empty list of scores, a text where the scores should be, a pairwise
\* matrix with or without a score
JsonContents ==
    { Absent,
      [kind |-> "malformed"],
      [kind |-> "object", lists |-> {"plddt"}, texts |-> {},
       fields |-> [k \in {"plddt"} |-> <<83, 95>>]],
      [kind |-> "object", lists |-> {"plddt"}, texts |-> {},
       fields |-> [k \in {"plddt"} |-> <<8300, 9500>>]],
      [kind |-> "object", lists |-> {"plddt"}, texts |-> {},
       fields |-> [k \in {"plddt"} |-> << >>]],
      [kind |-> "object", lists |-> {}, texts |-> {"atom_plddt"},
       fields |-> [k \in {"atom_plddt"} |-> "n/a"]],
      [kind |-> "object", lists |-> {"pae"}, texts |-> {},
       fields |-> [k \in {"pae"} |-> PaeRows]],
      [kind |-> "object", lists |-> {"pae"}, texts |-> {},
       fields |-> [k \in {"confidence", "pae"} |->
                      IF k = "confidence" THEN 81 ELSE PaeRows]] }

\* the predictions folder, directly under the working directory
LoadDir == PathJoin(output_dir, "predictions")

LoadSnapshot(cif, pl, pae, js) ==
    LET listing ==
            (IF cif # Absent THEN <<CifName>> ELSE << >>)
            \o (IF js # Absent THEN <<ConfidenceName>> ELSE << >>)
            \o (IF pae # Absent THEN <<PaeName>> ELSE << >>)
            \o (IF pl # Absent THEN <<PlddtName>> ELSE << >>)
        names == { listing[i] : i \in DOMAIN listing }
    IN  [entries |-> << >>,
         direct |-> TRUE,
         listing |-> listing,
         json |-> [rel \in names \cap {ConfidenceName} |-> js],
         data |-> [rel \in names \ {ConfidenceName} |->
                     CASE rel = CifName -> cif
                       [] rel = PaeName -> pae
                       [] rel = PlddtName -> pl]]

LoadSnapshots ==
    { LoadSnapshot(cif, pl, pae, js) :
        cif \in CifContents, pl \in PlddtNpzContents,
        pae \in PaeNpzContents, js \in JsonContents }

\* the arguments of a call: each path is given or None
LoadArgs ==
    [cif_path : {None, PathJoin(LoadDir, CifName)},
     npz_path : {None, PathJoin(LoadDir, PlddtName)},
     json_path : {None, PathJoin(LoadDir, ConfidenceName)},
     pae_path : {None, PathJoin(LoadDir, PaeName)}]

LoadInit ==
    /\ l_pc = "pae"
    /\ l_snap \in LoadSnapshots
    /\ l_args \in LoadArgs
    /\ l_plddt = NoneArray
    /\ l_pae = NoneArray

\* pae_matrix = load_pae(npz_path)
CallLoadPae ==
    /\ l_pc = "pae"
    /\ l_pae' = load_pae(l_args.pae_path, l_snap)
    /\ l_pc' = "plddt"
    /\ UNCHANGED <<l_snap, l_args, l_plddt>>
    /\ UNCHANGED l_others

\* plddt_scores = load_plddt(npz_path=..., json_path=..., cif_path=...)
CallLoadPlddt ==
    /\ l_pc = "plddt"
    /\ l_plddt' = load_plddt(l_args.npz_path, l_args.json_path, l_args.cif_path, l_snap)
    /\ l_pc' = "done"
    /\ UNCHANGED <<l_snap, l_args, l_pae>>
    /\ UNCHANGED l_others

InitLoad ==
    LoadInit /\ CmdIdle /\ MetricsIdle /\ RunIdle /\ AppIdle /\ FindIdle /\ ExtractIdle /\ VisIdle
NextLoad == CallLoadPae \/ CallLoadPlddt
SpecLoad == InitLoad /\ [][NextLoad]_vars

\* the file a path of the call names, Absent when the path is None or names
\* no file
Given(path) ==
    IF path # None /\ Exists(l_snap, path) THEN FileContent(l_snap, path) ELSE Absent

\* the keys load_plddt looks for in the confidence document
JsonPlddtKeys == {"plddt", "atom_plddt", "confidence", "predicted_lddt"}

\* each source yields something: the structure file has atom rows, the array
\* file has an array, the document has scores
CifYields ==
    LET cif == Given(l_args.cif_path) IN cif.kind = "cif" /\ cif.atoms # << >>
NpzYields ==
    LET npz == Given(l_args.npz_path) IN npz.kind = "npz" /\ npz.files # << >>
JsonYields ==
    LET js == Given(l_args.json_path)
    IN  /\ js.kind = "object"
        /\ \E k \in JsonPlddtKeys \cap DOMAIN js.fields :
              /\ k \notin js.texts
              /\ k \in js.lists => js.fields[k] # << >>

\* the values of each source as the file has them
CifRaw == extract_plddt_from_cif(l_args.cif_path, l_snap).flat
NpzRaw ==
    LET npz == Given(l_args.npz_path) IN npz.arrays[npz.files[1]].flat
JsonRaw ==
    LET js == Given(l_args.json_path)
        k == CHOOSE k \in JsonPlddtKeys \cap DOMAIN js.fields : TRUE
    IN  IF k \in js.lists THEN js.fields[k] ELSE <<js.fields[k]>>

\* the values on the scale 0-100: multiplied by 100 when the largest is at
\* most 1.0
Normalised(raw) ==
    IF Max(raw) <= 100 THEN [i \in DOMAIN raw |-> raw[i] * 100] ELSE raw

\* C11: whichever source load_plddt returns from, the values returned are
\* the raw values multiplied by 100 when the largest raw value is at most
\* 1.0, and the raw values themselves when it is larger.
C11_ScaleNormalised ==
    (l_pc = "done" /\ l_plddt # NoneArray)
        => l_plddt.flat = Normalised(IF CifYields THEN CifRaw
                                     ELSE IF NpzYields THEN NpzRaw
                                     ELSE JsonRaw)

\* C12: load_plddt returns what the structure file gives when that yields
\* something; otherwise what the array file gives when that yields
\* something; otherwise what the document gives; and None only when none of
\* the three yields anything.
C12_SourcePriority ==
    l_pc = "done" =>
        /\ l_plddt =
             IF CifYields THEN extract_plddt_from_cif(l_args.cif_path, l_snap)
             ELSE IF NpzYields
               THEN _load_npz(l_args.npz_path,
                              <<"plddt", "predicted_lddt", "confidence", "data">>, l_snap)
             ELSE IF JsonYields THEN PlddtFromJson(l_args.json_path, l_snap)
             ELSE NoneArray
        /\ l_plddt = NoneArray <=> ~(CifYields \/ NpzYields \/ JsonYields)

\* C12: the structure file is there without atom rows, the array file and
\* the document both have scores, and the scores of the array file come back
C12_Witness ==
    /\ l_pc = "done"
    /\ Given(l_args.cif_path).kind = "cif"
    /\ ~CifYields /\ NpzYields /\ JsonYields
    /\ l_plddt = Array(<<2>>, <<8500, 9300>>)

\* the confidence document has a pairwise-error key
JsonHasPae ==
    LET js == FileContent(l_snap, PathJoin(LoadDir, ConfidenceName))
    IN  js.kind = "object" /\ "pae" \in DOMAIN js.fields

\* C13: when the pairwise array file is absent or unreadable and the
\* confidence document has a pairwise-error key, the pairwise loader returns
\* the matrix of the document.
C13_PaeJsonFallback ==
    (l_pc \in {"plddt", "done"}
       /\ Given(l_args.pae_path).kind \in {"absent", "corrupt"}
       /\ JsonHasPae)
        => l_pae = PaeMatrix

\* C14: for an array file holding an N x N pairwise-error array, with or
\* without a leading batch axis of size 1, the pairwise loader returns an
\* N x N matrix.
C14_PaeStaysSquare ==
    (l_pc \in {"plddt", "done"} /\ Given(l_args.pae_path).kind = "npz")
        => /\ l_pae # NoneArray
           /\ l_pae.shape = PaeMatrix.shape

-----------------------------------------------------------------------------
(* The locating of the output in run_prediction (the call of                *)
(* _find_predictions_dir, the three globs and the return), on its own, over *)
(* working directories with several result directories and predictions      *)
(* folders with several structure files.                                    *)

\* the most result directories in the working directory
MaxDirs == 2

FindDirNames == {"boltz_results_a", "boltz_results_b", "boltz_results_input"}

\* the structure files a predictions folder may hold
FindFileNames == {"m/m_0.cif", "m/m_1.cif", "m/m_0.pdb", "a/deep/z.cif"}

\* the bijections of 1..n: the modification times of n directories, no two
\* of them equal
Orders(n) == { f \in [1..n -> 1..n] : \A i, j \in 1..n : f[i] = f[j] => i = j }

\* the result directories in the order glob enumerates them, with distinct
\* modification times, each with or without a predictions folder
FindEntries ==
    UNION { { [i \in 1..Len(names) |->
                 [name |-> names[i], mtime |-> mtimes[i], pred |-> preds[i]]] :
              mtimes \in Orders(Len(names)), preds \in [1..Len(names) -> BOOLEAN] } :
            names \in ListsUpTo(FindDirNames, MaxDirs) }

FindSnapshots ==
    { [entries |-> entries, direct |-> direct, listing |-> listing,
       json |-> EmptyDict, data |-> EmptyDict] :
        entries \in FindEntries, direct \in BOOLEAN,
        listing \in ListsUpTo(FindFileNames, MaxFiles) }

\* the process has exited with nothing printed
QuietExit == [kind |-> "exited", returncode |-> 0, stdout |-> "", stderr |-> ""]

FindInit ==
    /\ f_pc = "find"
    /\ f_snap \in FindSnapshots
    /\ f_pred_dir = None
    /\ f_ret = NoResult

\* pred_dir = _find_predictions_dir(output_dir)
FindPredictionsDir ==
    /\ f_pc = "find"
    /\ f_pred_dir' = _find_predictions_dir(output_dir, f_snap)
    /\ f_pc' = "glob"
    /\ UNCHANGED <<f_snap, f_ret>>
    /\ UNCHANGED f_others

\* the globs, the choice of the structure and the return
LocateReturn ==
    /\ f_pc = "glob"
    /\ f_ret' = LocateResult(f_snap, QuietExit, 120, "")
    /\ f_pc' = "done"
    /\ UNCHANGED <<f_snap, f_pred_dir>>
    /\ UNCHANGED f_others

InitFind ==
    FindInit /\ CmdIdle /\ MetricsIdle /\ RunIdle /\ AppIdle /\ LoadIdle /\ ExtractIdle /\ VisIdle
NextFind == FindPredictionsDir \/ LocateReturn
SpecFind == InitFind /\ [][NextFind]_vars

\* the result directories that hold a predictions folder
WithPredictions == SelectSeq(GlobResults(f_snap), LAMBDA e : e.pred)

\* C15: when some result directory holds a predictions folder,
\* _find_predictions_dir returns the predictions folder of the most recently
\* modified one of those, also when a result directory modified later holds
\* none.
C15_NewestWithPredictions ==
    (f_pc # "find" /\ WithPredictions # << >>)
        => LET latest == CHOOSE i \in DOMAIN WithPredictions :
                            \A j \in DOMAIN WithPredictions :
                                WithPredictions[j].mtime <= WithPredictions[i].mtime
           IN  f_pred_dir =
                 PathJoin(PathJoin(output_dir, WithPredictions[latest].name), "predictions")

\* the files of the predictions folder found, by extension, as full paths
FoundFiles(ext) ==
    IF f_pred_dir = None THEN {}
    ELSE LET hits == GlobExt(f_pred_dir, f_snap, ext)
         IN  { hits[i] : i \in DOMAIN hits }

\* C16: the structure run_prediction returns is a .cif file whenever the
\* predictions folder holds a .cif file at some depth, and a .pdb file only
\* when it holds no .cif file and holds a .pdb file.
C16_CifPreferred ==
    f_pc = "done" =>
        /\ FoundFiles(".cif") # {}
             => f_ret.success /\ f_ret.result \in FoundFiles(".cif")
        /\ (FoundFiles(".cif") = {} /\ FoundFiles(".pdb") # {})
             => f_ret.success /\ f_ret.result \in FoundFiles(".pdb")
        /\ (f_ret.success /\ EndsWith(f_ret.result, ".pdb"))
             => FoundFiles(".cif") = {}

\* C16: a .pdb file is enumerated before a .cif file that lies deeper, and
\* the .cif file is returned
C16_Witness ==
    /\ f_pc = "done"
    /\ f_snap.listing = <<"m/m_0.pdb", "a/deep/z.cif">>
    /\ f_ret.success
    /\ f_ret.result = PathJoin(f_pred_dir, "a/deep/z.cif")

\* the characters of the paths, in the order of their codes
CharOrder == "./0123456789_abcdefghijklmnopqrstuvwxyz"

\* ord(c)
Ord(c) == CHOOSE i \in 1..Len(CharOrder) : SubSeq(CharOrder, i, i) = c

RECURSIVE LexLeq(_, _)
\* a <= b for two strings
LexLeq(a, b) ==
    IF a = "" THEN TRUE
    ELSE IF b = "" THEN FALSE
    ELSE LET x == Ord(SubSeq(a, 1, 1))
             y == Ord(SubSeq(b, 1, 1))
         IN  IF x # y THEN x < y
             ELSE LexLeq(SubSeq(a, 2, Len(a)), SubSeq(b, 2, Len(b)))

\* C20: when the predictions folder holds several structure files of the
\* preferred format, run_prediction returns the lexicographically first of
\* them, in whatever order the search enumerates them.
C20_LexicographicFirst ==
    (f_pc = "done" /\ f_ret.success)
        => LET preferred == IF FoundFiles(".cif") # {} THEN FoundFiles(".cif")
                            ELSE FoundFiles(".pdb")
           IN  \A other \in preferred : LexLeq(f_ret.result, other)

-----------------------------------------------------------------------------
(* _extract_error, called on its own on texts put together from lines that  *)
(* match the signatures of its rules, alone and several at once.            *)

\* the most lines of a text
MaxLines == 3

ExtractLines ==
    { "RuntimeError: CUDA out of memory.",
      "torch.OutOfMemoryError",
      "[Errno 2] No such file or directory: 'input.yaml'",
      "KeyError: 'A1'",
      "Traceback (most recent call last):",
      "ValueError: bad chain",
      "Predicting",
      " 50%|== | 1/2 [00:01, 1.0it/s]",
      "   ",
      "" }

\* the texts of at most MaxLines different lines
ExtractOutputs == { Join("\n", lines) : lines \in ListsUpTo(ExtractLines, MaxLines) }

ExtractInit ==
    /\ e_pc = "call"
    /\ e_output \in ExtractOutputs
    /\ e_msg = None

\* _extract_error(error_text, seq_len, log_path)
CallExtractError ==
    /\ e_pc = "call"
    /\ e_msg' = _extract_error(e_output, 120, log_path)
    /\ e_pc' = "done"
    /\ UNCHANGED e_output
    /\ UNCHANGED e_others

InitExtract ==
    ExtractInit /\ CmdIdle /\ MetricsIdle /\ RunIdle /\ AppIdle /\ LoadIdle /\ FindIdle /\ VisIdle
NextExtract == CallExtractError
SpecExtract == InitExtract /\ [][NextExtract]_vars

\* the signatures of the rules
IsOutOfMemory ==
    Contains(e_output, "CUDA out of memory") \/ Contains(e_output, "OutOfMemoryError")
IsMissingFile == Contains(e_output, "No such file or directory")
IsKeyLookup == Contains(e_output, "KeyError")
HasTraceback == Contains(e_output, "Traceback")
HasErrorLine == Contains(e_output, "Error:") \/ Contains(e_output, "Exception:")

\* the rule a message comes from, by the text only that rule writes
FromOutOfMemory == StartsWith(e_msg, "GPU out of memory.")
FromMissingFile == e_msg = "Input file error -- check your sequence format."
FromKeyLookup == StartsWith(e_msg, "YAML parsing error: KeyError '")
FromTraceback == StartsWith(e_msg, "Prediction failed:\n")
FromErrorLines ==
    \A l \in { Split(e_msg, "\n")[i] : i \in DOMAIN Split(e_msg, "\n") } :
        Contains(l, "Error:") \/ Contains(l, "Exception:")

\* C17: the message _extract_error returns is that of the first rule, in the
\* order out-of-memory, missing file, key lookup, stack trace, error lines,
\* filtered tail, whose signature the text matches; the message of a later
\* rule comes back only when no earlier rule matches.
C17_FirstRuleWins ==
    e_pc = "done" =>
        IF IsOutOfMemory THEN FromOutOfMemory
        ELSE IF IsMissingFile THEN FromMissingFile
        ELSE IF IsKeyLookup THEN FromKeyLookup
        ELSE IF HasTraceback THEN FromTraceback
        ELSE IF HasErrorLine THEN FromErrorLines
        ELSE ~(FromOutOfMemory \/ FromMissingFile \/ FromKeyLookup \/ FromTraceback
               \/ FromErrorLines)

\* C17: a text with a stack trace and a key-lookup failure, for which the
\* message of the key-lookup rule comes back
C17_Witness ==
    /\ e_pc = "done"
    /\ e_output = "Traceback (most recent call last):\nKeyError: 'A1'"
    /\ e_msg = "YAML parsing error: KeyError 'A1' -- chain ID format may be wrong."

\* C18: _extract_error returns a text that is not empty for every output,
\* the empty one and those of blank and progress-bar lines only included;
\* the messages of the other Failures run_prediction returns are not empty
\* either.
C18_MessageNeverEmpty ==
    /\ e_pc = "done" => e_msg # ""
    /\ TimeoutResult("").result # ""
    /\ NotFoundResult.result # ""
    /\ ErrorResult("", "").result # ""

\* C18: for a text of a blank line and a progress-bar line the fallback that
\* names the log file comes back
C18_Witness ==
    /\ e_pc = "done"
    /\ e_output = "   \n 50%|== | 1/2 [00:01, 1.0it/s]"
    /\ e_msg = "Unknown error -- see /tmp/boltz_j1/boltz_log.txt"

-----------------------------------------------------------------------------
(* _collect_metrics under a reordering of its documents *)

\* the list of documents in the order p
Reordered(p) == [i \in DOMAIN m_json_files |-> m_json_files[p[i]]]

\* each source key of k is a member of at most one document of the list
InOneDocument(k) ==
    \A s \in SourcesOf(k) :
        Cardinality({ i \in DOMAIN m_json_files : s \in DOMAIN Fields(i) }) <= 1

\* C19: for a list of well-formed documents, _collect_metrics returns for
\* every other order of the list the same value for each canonical key
\* whose source keys are each in one document only.
C19_OrderIndependent ==
    (m_pc = "returned" /\ \A i \in DOMAIN m_json_files : Readable(i))
        => \A p \in Orders(Len(m_json_files)) :
              LET other == _collect_metrics(Reordered(p), m_disk)
              IN  \A k \in { c \in CanonicalKeys : InOneDocument(c) } :
                      /\ k \in DOMAIN other <=> k \in DOMAIN m_metrics
                      /\ k \in DOMAIN m_metrics => other[k] = m_metrics[k]

-----------------------------------------------------------------------------
(* run_prediction: the file-not-found handler *)

\* C25: run_prediction returns the Failure that says the tool was not found
\* and must be installed and on PATH only when the executable is missing; a
\* file that is not found after the process has run (the log file that cannot
\* be created, a result directory that vanishes during the sort) is never
\* reported so.
C25_NotFoundOnlyWhenMissing ==
    (pc = "done" /\ ret = NotFoundResult) => proc.kind = "notfound"

-----------------------------------------------------------------------------
(* Functions of visualization.py called on their own: v_call is the call    *)
(* (the function and its arguments), v_ret what it returns.                 *)

\* the longest array
MaxLen == 3

\* values around the scaling threshold of 1.0, in hundredths
SqueezeValues == {0, 50, 100, 101, 8700}

\* arrays of one dimension (the empty one included), and the same values
\* with a batch axis of size 1 before or after
SqueezeArrays ==
    UNION { { Array(<<n>>, f) : f \in [1..n -> SqueezeValues] } : n \in 0..MaxLen }
    \cup UNION { { Array(<<1, n>>, f) : f \in [1..n -> SqueezeValues] } : n \in 1..MaxLen }
    \cup UNION { { Array(<<n, 1>>, f) : f \in [1..n -> SqueezeValues] } : n \in 2..MaxLen }

SqueezeCalls == { [fn |-> "_squeeze_array", arr |-> arr] : arr \in SqueezeArrays }

\* _squeeze_array(arr)
CallSqueezeArray ==
    /\ v_pc = "call"
    /\ v_call.fn = "_squeeze_array"
    /\ v_ret' = _squeeze_array(v_call.arr)
    /\ v_pc' = "done"
    /\ UNCHANGED v_call
    /\ UNCHANGED v_others

\* the most rows of an atom table
MaxAtoms == 3

\* rows of three residues, two of them on two rows with different B-factors,
\* a row of a ligand atom, and rows of two residues without a B-factor
AtomRows ==
    { Atom(1, 8700), Atom(1, 5000), Atom(2, 9100), Atom(2, 40), Atom(3, 6500),
      HetAtom(4000), NoBFactor(1), NoBFactor(3) }

\* the structure files: unreadable, or with an atom table of at most
\* MaxAtoms different rows in some order
AtomTables ==
    { [kind |-> "corrupt"] }
    \cup { [kind |-> "cif", atoms |-> atoms] : atoms \in ListsUpTo(AtomRows, MaxAtoms) }

CifCalls ==
    { [fn |-> "extract_plddt_from_cif",
       cif_path |-> PathJoin(LoadDir, CifName),
       snap |-> LoadSnapshot(cif, Absent, Absent, Absent)] : cif \in AtomTables }

\* extract_plddt_from_cif(cif_path)
CallExtractPlddt ==
    /\ v_pc = "call"
    /\ v_call.fn = "extract_plddt_from_cif"
    /\ v_ret' = extract_plddt_from_cif(v_call.cif_path, v_call.snap)
    /\ v_pc' = "done"
    /\ UNCHANGED v_call
    /\ UNCHANGED v_others

\* the working directory of another job, and the confidence files it has
\* written
other_job_dir == "/tmp/boltz_j2"

OtherJobFiles ==
    LET pred == PathJoin(PathJoin(other_job_dir, "boltz_results_input"), "predictions")
    IN  << PathJoin(pred, PaeName), PathJoin(pred, PlddtName),
           PathJoin(pred, ConfidenceName) >>

\* the job's own predictions folder after a run that has left a structure
JobSnapshots ==
    { AppSnapshot(lay, st, pae, pl, js) :
        lay \in AppLayouts, st \in {"cif", "pdb"},
        pae \in ArtifactStates, pl \in ArtifactStates, js \in ArtifactStates }

\* the search of predict_structure for one job while the files of the other
\* are on disk; a glob from a directory above both enumerates the files of
\* either job first
FindCalls ==
    { [fn |-> "find_confidence_files",
       result |-> Structure(snap),
       job_dir |-> job_dir,
       tree |-> IF own_first THEN Tree(snap) \o OtherJobFiles
                ELSE OtherJobFiles \o Tree(snap)] :
        snap \in JobSnapshots, own_first \in BOOLEAN }

\* conf = find_confidence_files(...) in predict_structure
CallFindConfidence ==
    /\ v_pc = "call"
    /\ v_call.fn = "find_confidence_files"
    /\ v_ret' = ConfidenceFiles(v_call.result, v_call.job_dir, v_call.tree)
    /\ v_pc' = "done"
    /\ UNCHANGED v_call
    /\ UNCHANGED v_others

VisInit ==
    /\ v_pc = "call"
    /\ v_call \in SqueezeCalls \cup CifCalls \cup FindCalls
    /\ v_ret = NoneArray

InitVis ==
    /\ VisInit /\ CmdIdle /\ MetricsIdle /\ RunIdle /\ AppIdle
    /\ LoadIdle /\ FindIdle /\ ExtractIdle
NextVis == CallSqueezeArray \/ CallExtractPlddt \/ CallFindConfidence
SpecVis == InitVis /\ [][NextVis]_vars

\* C21: _squeeze_array returns an array of one dimension whose largest value
\* is above 1.0 as it is: the same length and the same values, not scaled a
\* second time.
C21_NormalisedUnchanged ==
    (v_pc = "done" /\ v_call.fn = "_squeeze_array"
       /\ ndim(v_call.arr) = 1 /\ v_call.arr.flat # << >>
       /\ Max(v_call.arr.flat) > 100)
        => v_ret = v_call.arr

\* C21: an array with a value just above 1.0 and one on the scale 0-100 has
\* gone through _squeeze_array
C21_Witness ==
    /\ v_pc = "done"
    /\ v_call.fn = "_squeeze_array"
    /\ v_call.arr = Array(<<2>>, <<101, 8700>>)
    /\ v_ret = Array(<<2>>, <<101, 8700>>)

\* the rows of the atom table of the call, the residue numbers in it, and
\* the residue numbers that have a row with a B-factor
CallAtoms == FileContent(v_call.snap, v_call.cif_path).atoms
CallResidues == { CallAtoms[i].rid : i \in { j \in DOMAIN CallAtoms : CallAtoms[j].seq } }
CallScored ==
    { CallAtoms[i].rid :
        i \in { j \in DOMAIN CallAtoms : CallAtoms[j].seq /\ CallAtoms[j].num } }

\* C22: extract_plddt_from_cif returns one value for each residue number of
\* the atom table, in the order of the residue numbers, and the value of a
\* residue is the B-factor of the first row with its number; later rows with
\* that number do not change it.
C22_FirstRowPerResidue ==
    (v_pc = "done" /\ v_call.fn = "extract_plddt_from_cif"
       /\ FileContent(v_call.snap, v_call.cif_path).kind = "cif"
       /\ CallResidues # {})
        => /\ v_ret # NoneArray
           /\ v_ret.shape = <<Cardinality(CallResidues)>>
           /\ \A r \in CallResidues :
                LET place == Cardinality({ x \in CallResidues : x <= r })
                    rows == { i \in DOMAIN CallAtoms :
                                CallAtoms[i].seq /\ CallAtoms[i].rid = r }
                    first == CHOOSE i \in rows : \A j \in rows : i <= j
                IN  CallAtoms[first].num /\ v_ret.flat[place] = CallAtoms[first].b

\* C22, amended: extract_plddt_from_cif returns one value for each residue
\* number that has a row with a numeric B-factor, in the order of the
\* residue numbers, and the value of a residue is the B-factor of the first
\* such row; rows of the residue before it (without a B-factor) and after it
\* do not change the value, and None is returned when no residue has one.
C22_FirstScoredRowPerResidue ==
    (v_pc = "done" /\ v_call.fn = "extract_plddt_from_cif"
       /\ FileContent(v_call.snap, v_call.cif_path).kind = "cif")
        => IF CallScored = {} THEN v_ret = NoneArray
           ELSE /\ v_ret # NoneArray
                /\ v_ret.shape = <<Cardinality(CallScored)>>
                /\ \A r \in CallScored :
                     LET place == Cardinality({ x \in CallScored : x <= r })
                         rows == { i \in DOMAIN CallAtoms :
                                     /\ CallAtoms[i].seq
                                     /\ CallAtoms[i].num
                                     /\ CallAtoms[i].rid = r }
                         first == CHOOSE i \in rows : \A j \in rows : i <= j
                     IN  v_ret.flat[place] = CallAtoms[first].b

\* C22: the first row of residue 1 has no B-factor and the residue has two
\* more rows with different B-factors
C22_Witness ==
    /\ v_pc = "done"
    /\ v_call.fn = "extract_plddt_from_cif"
    /\ FileContent(v_call.snap, v_call.cif_path).kind = "cif"
    /\ CallAtoms = << NoBFactor(1), Atom(1, 5000), Atom(1, 8700) >>
    /\ v_ret = Array(<<1>>, <<5000>>)

\* C24: every path find_confidence_files gives predict_structure for a job
\* lies inside the working directory of that job, also when the files of
\* another job with another working directory are on disk.
C24_ConfidenceInsideJob ==
    (v_pc = "done" /\ v_call.fn = "find_confidence_files")
        => \A path \in {v_ret.pae, v_ret.plddt, v_ret.confidence_json} \ {None} :
              StartsWith(path, PathJoin(v_call.job_dir, ""))

-----------------------------------------------------------------------------
(* load_plddt on sources that are there and cannot be parsed *)

\* a source exists and cannot be parsed: an unreadable structure file, a
\* corrupt array file or one without arrays, a malformed document or one
\* with a text or an empty list where the scores should be
CifUnparsable == Given(l_args.cif_path).kind = "corrupt"
NpzUnparsable ==
    LET npz == Given(l_args.npz_path)
    IN  npz.kind = "corrupt" \/ (npz.kind = "npz" /\ npz.files = << >>)
JsonUnparsable ==
    LET js == Given(l_args.json_path)
    IN  \/ js.kind = "malformed"
        \/ /\ js.kind = "object"
           /\ JsonPlddtKeys \cap DOMAIN js.fields # {}
           /\ ~JsonYields

\* C23: load_plddt returns and does not raise; a source that exists and
\* cannot be parsed counts as unavailable, and the next source in the order
\* structure file, array file, document is still tried.
C23_UnparsableSkipped ==
    l_pc = "done" =>
        /\ l_plddt # Raised
        /\ (CifUnparsable /\ NpzYields)
             => l_plddt # NoneArray /\ l_plddt.flat = Normalised(NpzRaw)
        /\ (~CifYields /\ NpzUnparsable /\ JsonYields)
             => l_plddt # NoneArray /\ l_plddt.flat = Normalised(JsonRaw)
        /\ (~CifYields /\ ~NpzYields /\ JsonUnparsable)
             => l_plddt = NoneArray

\* C23: the structure file is unreadable and the array file corrupt, and the
\* scores of the document come back
C23_Witness ==
    /\ l_pc = "done"
    /\ CifUnparsable /\ NpzUnparsable /\ JsonYields
    /\ Given(l_args.npz_path).kind = "corrupt"
    /\ l_plddt = Array(<<2>>, <<8300, 9500>>)

====
